---- MODULE Spec2Model ----
(***************************************************************************)
(* A model of microbin's paste lifecycle: the in-memory collection behind  *)
(* AppState.pastas, the eviction sweep (util/misc.rs), the storage backend *)
(* (util/storage.rs), the locator codec (pasta.rs) and the handlers create,*)
(* get_file, post_secure_file, GET remove and POST remove (endpoints/).    *)
(*                                                                         *)
(* Strings.  A password or key is a TLA+ string.  A text the encryption    *)
(* engine may have produced (content, encrypted_key, file bytes) is a      *)
(* record [enc, key, s]: cleartext s is [enc |-> FALSE, key |-> "", s],    *)
(* the ciphertext of s under k is [enc |-> TRUE, key |-> k, s].  A file    *)
(* name or storage path is the sequence of its characters, so that the     *)
(* prefix tests of the code ("s3://", "s3:") and its splitting at "/" are  *)
(* computed: "s", "3", ":" and "/" stand for themselves, any other element *)
(* ("a.txt", "attachments") for a run of other characters.                 *)
(***************************************************************************)
EXTENDS Integers, Sequences, FiniteSets, TLC

\* ------------------------------------------------------------------ bounds

\* The number of creation requests a behaviour holds (the store grows by one
\* entity per committed creation, so this bounds the collection too).
MaxCreates == 2

\* ---------------------------------------------------------------- constants

\* Seconds per day, the divisor of Pasta::last_read_days_ago.
SecondsPerDay == 86400

\* 2^16: the width of the `as u16` cast of Pasta::last_read_days_ago.
U16Modulus == 65536

\* --------------------------------------------------------------- the state

VARIABLES
    args,      \* ARGS, the configuration read at start-up (never changes)
    pastas,    \* AppState.pastas: the Vec<Pasta> behind the store lock
    db,        \* the durable index (util::db), keyed by entity id
    files,     \* the storage backend: storage key -> bytes
    now,       \* the system clock, in seconds (SystemTime::now())
    inflight,  \* explicit deletions that released the lock and wait for it
    created,   \* the number of creation requests so far
    last,      \* what the most recent step did (its request and outcome)
    lock       \* the store lock between steps: "free" or "poisoned"

vars == <<args, pastas, db, files, now, inflight, created, last, lock>>

Range(f) == {f[x] : x \in DOMAIN f}

\* ------------------------------------------------------- encryption engine

Plain(s) == [enc |-> FALSE, key |-> "", s |-> s]

EmptyText == Plain("")

\* util::misc::encrypt: the empty string maps to itself, anything else to
\* its ciphertext under key_str (any key is accepted, the empty one too).
encrypt(text_str, key_str) ==
    IF text_str = EmptyText THEN EmptyText
    ELSE [enc |-> TRUE, key |-> key_str, s |-> text_str.s]

\* util::misc::decrypt: Ok("") for the empty string whatever the key; else
\* Ok(plaintext) under the key the text was encrypted with, Err otherwise
\* (a wrong key, or a text that is no ciphertext).
decrypt(text_str, key_str) ==
    IF text_str = EmptyText THEN [ok |-> TRUE, val |-> EmptyText]
    ELSE IF text_str.enc /\ text_str.key = key_str
         THEN [ok |-> TRUE, val |-> Plain(text_str.s)]
         ELSE [ok |-> FALSE, val |-> EmptyText]

\* util::misc::encrypt_bytes: no short-circuit for an empty payload.
encrypt_bytes(data, passphrase) ==
    [enc |-> TRUE, key |-> passphrase, s |-> data.s]

\* util::misc::decrypt_bytes.
decrypt_bytes(data, passphrase) ==
    IF data.enc /\ data.key = passphrase
    THEN [ok |-> TRUE, val |-> Plain(data.s)]
    ELSE [ok |-> FALSE, val |-> EmptyText]

\* ------------------------------------------------------------ ids, slugs

\* u64::to_string on the ids of the model.
IdDigits == <<"0", "1", "2", "3">>

id_to_string(id) == IdDigits[id + 1]

\* Pasta::id_as_animals: the slug of an id.  The codec (animalnumbers,
\* hashids) is injective; the model renders the id in decimal.
id_as_animals(id) == id_to_string(id)

\* ------------------------------------------------------ the locator codec

NoFile == [some |-> FALSE, name |-> <<>>]

SomeFile(name) == [some |-> TRUE, name |-> name]

\* str::starts_with: a name is the sequence of its characters, where the
\* characters the codec looks at ("s", "3", ":", "/") stand for themselves
\* and any other element stands for a run of other characters.
starts_with(s, prefix) ==
    Len(s) >= Len(prefix) /\ SubSeq(s, 1, Len(prefix)) = prefix

\* "s3://" and "s3:".
S3UrlPrefix == <<"s", "3", ":", "/", "/">>

S3TagPrefix == <<"s", "3", ":">>

\* self.name.starts_with("s3://").
StartsWithS3Url(name) == starts_with(name, S3UrlPrefix)

\* self.name.starts_with("s3:").
StartsWithS3Tag(name) == starts_with(name, S3TagPrefix)

\* PastaFile::is_s3.
is_s3(file) == StartsWithS3Url(file.name)

\* The same predicate without its second test.
is_s3_encrypted_tagonly(file) == StartsWithS3Tag(file.name)

\* PastaFile::is_s3_encrypted.
is_s3_encrypted(file) ==
    StartsWithS3Tag(file.name) /\ ~StartsWithS3Url(file.name)

\* The index of the last "/" token of a name, 0 when it has none.
LastSlash(name) ==
    LET S == {i \in 1..Len(name) : name[i] = "/"}
    IN  IF S = {} THEN 0 ELSE CHOOSE i \in S : \A j \in S : j <= i

\* PastaFile::display_name.
display_name(file) ==
    IF StartsWithS3Url(file.name)
    THEN SubSeq(file.name, LastSlash(file.name) + 1, Len(file.name))
    ELSE IF StartsWithS3Tag(file.name)
         THEN SubSeq(file.name, Len(S3TagPrefix) + 1, Len(file.name))
         ELSE file.name

\* format!("s3://attachments/{}/{}", pasta_id, filename).
S3Url(pasta_id, filename) ==
    S3UrlPrefix \o <<"attachments", "/", pasta_id, "/">> \o filename

DataEnc == <<"data.enc">>

\* ------------------------------------------------------ the storage backend

\* util::storage::generate_storage_path.
generate_storage_path(pasta_id, filename) ==
    IF args.s3_enabled THEN S3Url(pasta_id, filename) ELSE filename

\* The key under which a storage path lives: the object key for an "s3://"
\* path (the prefix stripped), else the local file
\* <data_dir>/attachments/<pasta_id>/<storage_path>.
StorageKey(pasta_id, storage_path) ==
    IF StartsWithS3Url(storage_path)
    THEN [backend |-> "s3",
          path |-> SubSeq(storage_path, Len(S3UrlPrefix) + 1,
                          Len(storage_path))]
    ELSE [backend |-> "local",
          path |-> <<"attachments", "/", pasta_id, "/">> \o storage_path]

\* The object key of an "s3://" path: storage_path.strip_prefix("s3://").
S3Key(storage_path) ==
    [backend |-> "s3",
     path |-> SubSeq(storage_path, Len(S3UrlPrefix) + 1, Len(storage_path))]

\* The local file <data_dir>/attachments/<pasta_id>/<storage_path>.
LocalKey(pasta_id, storage_path) ==
    [backend |-> "local",
     path |-> <<"attachments", "/", pasta_id, "/">> \o storage_path]

\* util::storage::save_file (a successful save): put_object for an "s3://"
\* path, else File::create and write_all.
save_file(fs, pasta_id, storage_path, data) ==
    IF starts_with(storage_path, S3UrlPrefix)
    THEN (S3Key(storage_path) :> data) @@ fs
    ELSE (LocalKey(pasta_id, storage_path) :> data) @@ fs

\* The same function taking every "s3:" path for an object-store path.
get_file_bytes_tag(fs, pasta_id, storage_path) ==
    LET k == IF starts_with(storage_path, S3TagPrefix)
             THEN S3Key(storage_path)
             ELSE LocalKey(pasta_id, storage_path)
    IN  IF k \in DOMAIN fs THEN [ok |-> TRUE, val |-> fs[k]]
        ELSE [ok |-> FALSE, val |-> EmptyText]

\* util::storage::get_file: get_object for an "s3://" path, else fs::read;
\* Ok(bytes), or Err when nothing is stored there.
get_file_bytes(fs, pasta_id, storage_path) ==
    LET k == IF starts_with(storage_path, S3UrlPrefix)
             THEN S3Key(storage_path)
             ELSE LocalKey(pasta_id, storage_path)
    IN  IF k \in DOMAIN fs THEN [ok |-> TRUE, val |-> fs[k]]
        ELSE [ok |-> FALSE, val |-> EmptyText]

\* util::storage::delete_file (a successful delete): delete_object for an
\* "s3://" path, else fs::remove_file if the file exists; a missing local
\* file is Ok.
delete_file(fs, pasta_id, storage_path) ==
    IF starts_with(storage_path, S3UrlPrefix)
    THEN [x \in DOMAIN fs \ {S3Key(storage_path)} |-> fs[x]]
    ELSE [x \in DOMAIN fs \ {LocalKey(pasta_id, storage_path)} |-> fs[x]]

\* ------------------------------------------------------- the durable index

\* util::db::insert: upsert of the entity's row, keyed by its id.
db_insert(d, pasta) == (pasta.id :> pasta) @@ d

\* util::db::delete: delete of the row with this id.
db_delete(d, id) == [x \in DOMAIN d \ {id} |-> d[x]]

\* ------------------------------------------------------------ the entity

\* struct Pasta (extension and pasta_type, which no lifecycle decision
\* reads, are left out; uid and sealed_key are not fields of the code: uid
\* numbers the creations so that two entities with equal fields stay
\* distinguishable, sealed_key remembers the key the creation encrypted
\* under, "" when it encrypted nothing).
Pasta(uid, id, content, file, private, readonly, editable, encrypt_server, encrypt_client, encrypted_key, createdAt, expiration, last_read, read_count, burn_after_reads) ==
    [uid |-> uid, sealed_key |-> "", id |-> id, content |-> content,
     file |-> file,
     private |-> private, readonly |-> readonly, editable |-> editable,
     encrypt_server |-> encrypt_server, encrypt_client |-> encrypt_client,
     encrypted_key |-> encrypted_key, created |-> createdAt,
     expiration |-> expiration, last_read |-> last_read,
     read_count |-> read_count, burn_after_reads |-> burn_after_reads]

\* ------------------------------------------------- the lifecycle policy (GC)

\* Rust's i64 `/`: the quotient truncated toward zero.
TruncDiv(a, b) == IF a >= 0 THEN a \div b ELSE -((-a) \div b)

\* Rust's `as u16` of an i64: the low 16 bits.
AsU16(x) == x % U16Modulus

\* Pasta::last_read_days_ago.
last_read_days_ago(p, timenow) ==
    AsU16(TruncDiv(timenow - p.last_read, SecondsPerDay))

\* The same predicate with the expiry boundary off by one.
Keep_late(p, timenow) ==
    /\ (p.expiration = 0 \/ p.expiration >= timenow)
    /\ (p.read_count < p.burn_after_reads \/ p.burn_after_reads = 0)
    /\ (last_read_days_ago(p, timenow) < args.gc_days \/ args.gc_days = 0)

\* The closure of pastas.retain in remove_expired: TRUE to keep.
Keep(p, timenow) ==
    /\ (p.expiration = 0 \/ p.expiration > timenow)
    /\ (p.read_count < p.burn_after_reads \/ p.burn_after_reads = 0)
    /\ (last_read_days_ago(p, timenow) < args.gc_days \/ args.gc_days = 0)

\* The storage path the sweep derives for an evicted entity's file.
SweepStoragePath(p) ==
    IF p.encrypt_server
    THEN IF is_s3_encrypted(p.file)
         THEN S3Url(id_as_animals(p.id), DataEnc)
         ELSE DataEnc
    ELSE p.file.name

\* What remove_expired does to a collection at clock value timenow:
\*   kept    the collection retain leaves (order preserved),
\*   evicted the entities it drops,
\*   rows    the ids whose durable row it deletes,
\*   local   the local files it removes at once,
\*   tasks   the object-store deletes it spawns.
remove_expired(ps, timenow) ==
    LET ev    == SelectSeq(ps, LAMBDA p : ~Keep(p, timenow))
        withf == {p \in Range(ev) : p.file.some}
    IN  [kept    |-> SelectSeq(ps, LAMBDA p : Keep(p, timenow)),
         evicted |-> Range(ev),
         rows    |-> {p.id : p \in Range(ev)},
         local   |-> {StorageKey(id_as_animals(p.id), SweepStoragePath(p)) :
                        p \in {q \in withf :
                                 ~StartsWithS3Url(SweepStoragePath(q))}},
         tasks   |-> {[pasta_id |-> id_as_animals(p.id),
                       storage_path |-> SweepStoragePath(p)] :
                        p \in {q \in withf :
                                 StartsWithS3Url(SweepStoragePath(q))}}]

\* The durable index after the sweep's delete(None, Some(p.id)) calls.
SweptDb(d, sw) == [x \in DOMAIN d \ sw.rows |-> d[x]]

\* The backend after the sweep's fs::remove_file calls.
SweptFiles(fs, sw) == [x \in DOMAIN fs \ sw.local |-> fs[x]]

\* The backend after a sweep whose fs::remove_file calls on the keys in
\* `failed` returned an error.
SweptFilesBut(fs, sw, failed) ==
    [x \in DOMAIN fs \ (sw.local \ failed) |-> fs[x]]

\* No entity (Option::None of a lookup): a record of the entity's shape
\* which no creation produces (uid 0).
NoPasta ==
    Pasta(0, 0, EmptyText, NoFile, FALSE, FALSE, FALSE, FALSE, FALSE,
          EmptyText, 0, 0, 0, 0, 0)

\* ------------------------------------------------------------------ events

\* One thing a request does: kind is "lock" (pastas.lock()), "unlock" (the
\* guard dropped), "store" (an access to the collection), "io" (a backend
\* call), "spawn" (a task handed to the runtime), "log" (a log record) or
\* "panic"; `what` names the call, arg is the storage key or the logged
\* values, data the bytes written or read, ok the call's outcome.
Ev(kind, what, arg, data, ok) ==
    [kind |-> kind, what |-> what, arg |-> arg, data |-> data, ok |-> ok]

LockEv == Ev("lock", "pastas.lock", <<>>, EmptyText, TRUE)

UnlockEv == Ev("unlock", "drop", <<>>, EmptyText, TRUE)

StoreEv(what) == Ev("store", what, <<>>, EmptyText, TRUE)

\* A storage key [backend, path] as tokens.
KeyTokens(k) == <<k.backend>> \o k.path

IoEv(what, k, data, ok) == Ev("io", what, KeyTokens(k), data, ok)

LogEv(what, values) == Ev("log", what, values, EmptyText, TRUE)

\* A call of the durable index (db::insert, db::delete) for an id.
DbEv(what, id) == Ev("db", what, <<id_to_string(id)>>, EmptyText, TRUE)

\* ------------------------------------------------------------ observation

\* What a step leaves in `last`: the operation, its request (id, password,
\* multipart fields), the clock value it read, the entity its lookup found,
\* its response, the entities its sweep evicted, the entity it removed
\* explicitly and the body it returned; `events` is what the request did so
\* far, in program order (lock and unlock, accesses to the collection,
\* backend calls, log records), filled in by each handler.
Obs(op, id, password, req, hit, resp, evicted, removed, body) ==
    [op |-> op, id |-> id, password |-> password, req |-> req, at |-> now,
     hit |-> hit, resp |-> resp, evicted |-> evicted, removed |-> removed,
     body |-> body, events |-> <<>>]

NoObs == Obs("init", 0, "", <<>>, NoPasta, "", {}, NoPasta, EmptyText)

\* ARGS: the options the modelled code reads.
Args(gc_days, eternal_pasta, editable, s3_enabled, default_expiry) ==
    [gc_days |-> gc_days, eternal_pasta |-> eternal_pasta,
     editable |-> editable, s3_enabled |-> s3_enabled,
     default_expiry |-> default_expiry,
     auth_admin_password |-> "admin", no_file_upload |-> FALSE,
     uploader_password |-> ""]

\* ------------------------------------------------------------------ create

\* A multipart field: its name, its value (one chunk) and, for a file
\* field, the file name of its content disposition.
Field(name, val) == [name |-> name, val |-> val, fname |-> <<>>]

FileField(fname, data) == [name |-> "file", val |-> data, fname |-> fname]

\* The same match with "never" mapped to 0 under every configuration.
expiration_to_timestamp_eternal(expiration, timenow) ==
    CASE expiration = "1min"   -> timenow + 60
      [] expiration = "10min"  -> timenow + 60 * 10
      [] expiration = "1hour"  -> timenow + 60 * 60
      [] expiration = "24hour" -> timenow + 60 * 60 * 24
      [] expiration = "3days"  -> timenow + 60 * 60 * 24 * 3
      [] expiration = "1week"  -> timenow + 60 * 60 * 24 * 7
      [] expiration = "never"  -> 0
      [] OTHER                 -> timenow + 60 * 60 * 24 * 7

\* endpoints::create::expiration_to_timestamp.
expiration_to_timestamp(expiration, timenow) ==
    CASE expiration = "1min"   -> timenow + 60
      [] expiration = "10min"  -> timenow + 60 * 10
      [] expiration = "1hour"  -> timenow + 60 * 60
      [] expiration = "24hour" -> timenow + 60 * 60 * 24
      [] expiration = "3days"  -> timenow + 60 * 60 * 24 * 3
      [] expiration = "1week"  -> timenow + 60 * 60 * 24 * 7
      [] expiration = "never"  ->
             IF args.eternal_pasta THEN 0 ELSE timenow + 60 * 60 * 24 * 7
      [] OTHER                 -> timenow + 60 * 60 * 24 * 7

\* The match of the "burn_after" field.
burn_after_value(v) ==
    CASE v = "1"     -> 1
      [] v = "10"    -> 10
      [] v = "100"   -> 100
      [] v = "1000"  -> 1000
      [] v = "10000" -> 10000
      [] OTHER       -> 0

\* PastaFile::from_unsanitized: Path::file_name, the last component of the
\* uploaded path with trailing separators left out (Err when it has none).
from_unsanitized(path) ==
    LET E    == {i \in 1..Len(path) : path[i] # "/"}
        end  == IF E = {} THEN 0 ELSE CHOOSE i \in E : \A j \in E : j <= i
        S    == {i \in 1..end : path[i] = "/"}
        from == IF S = {} THEN 0 ELSE CHOOSE i \in S : \A j \in S : j <= i
        name == SubSeq(path, from + 1, end)
    IN  [ok |-> name # <<>>, file |-> SomeFile(name)]

NoPending == [some |-> FALSE, file |-> NoFile, data |-> EmptyText]

\* The handler's locals before the multipart loop: new_pasta, random_key,
\* plain_key, uploader_password, pending_file_data.
CreateLocals(uid, id, timenow) ==
    [pasta |-> Pasta(uid, id, EmptyText, NoFile, FALSE, FALSE, args.editable,
                     FALSE, FALSE, EmptyText, timenow,
                     expiration_to_timestamp(args.default_expiry, timenow),
                     timenow, 0, 0),
     random_key |-> "", plain_key |-> "", uploader_password |-> "",
     pending |-> NoPending]

\* The same match with "secret" not setting encrypt_server.
PrivacyFlags_secretnoserver(privacy) ==
    [private        |-> privacy # "public",
     readonly       |-> privacy = "readonly",
     encrypt_client |-> privacy = "secret",
     encrypt_server |-> privacy = "private"]

\* The four matches of the "privacy" field.
PrivacyFlags(privacy) ==
    [private        |-> privacy # "public",
     readonly       |-> privacy = "readonly",
     encrypt_client |-> privacy = "secret",
     encrypt_server |-> privacy \in {"private", "secret"}]

\* One turn of the multipart loop.
ApplyField(st, f) ==
    CASE f.name = "uploader_password" ->
             [st EXCEPT !.uploader_password = @ \o f.val]
      [] f.name = "random_key" -> [st EXCEPT !.random_key = f.val]
      [] f.name = "privacy" ->
             LET fl == PrivacyFlags(f.val)
             IN  [st EXCEPT !.pasta.private = fl.private,
                            !.pasta.readonly = fl.readonly,
                            !.pasta.encrypt_client = fl.encrypt_client,
                            !.pasta.encrypt_server = fl.encrypt_server]
      [] f.name = "plain_key" -> [st EXCEPT !.plain_key = f.val]
      [] f.name = "encrypted_random_key" ->
             [st EXCEPT !.pasta.encrypted_key = Plain(f.val)]
      [] f.name = "expiration" ->
             [st EXCEPT !.pasta.expiration =
                            expiration_to_timestamp(f.val, st.pasta.created)]
      [] f.name = "burn_after" ->
             [st EXCEPT !.pasta.burn_after_reads = burn_after_value(f.val)]
      [] f.name = "content" ->
             IF f.val # "" THEN [st EXCEPT !.pasta.content = Plain(f.val)]
             ELSE st
      [] f.name = "file" ->
             IF args.no_file_upload \/ f.fname = <<>> THEN st
             ELSE LET r == from_unsanitized(f.fname)
                  IN  IF ~r.ok THEN st
                      ELSE [st EXCEPT !.pending =
                                [some |-> TRUE, file |-> r.file,
                                 data |-> Plain(f.val)]]
      [] OTHER -> st

\* The multipart loop over the request's fields, in arrival order.
RECURSIVE ApplyFields(_, _)
ApplyFields(st, fields) ==
    IF fields = <<>> THEN st
    ELSE ApplyFields(ApplyField(st, Head(fields)), Tail(fields))

\* str::trim on the passwords of the model: " up " is "up" between spaces.
trim(s) == IF s = " up " THEN "up" ELSE s

\* The same check letting every request through.
UploaderAllowed_open(st, cookie) == TRUE

\* Whether the uploader check lets the request through (no uploader
\* password configured, a valid cookie, or the password of the request
\* equal to the configured one once both are trimmed).
UploaderAllowed(st, cookie) ==
    \/ args.uploader_password = ""
    \/ cookie
    \/ trim(st.uploader_password) = trim(args.uploader_password)

\* The same step encrypting under plain_key in every mode.
SealContent_plainonly(st) ==
    IF st.pasta.encrypt_server /\ ~st.pasta.readonly
           /\ st.pasta.content # EmptyText
    THEN encrypt(st.pasta.content, st.plain_key)
    ELSE st.pasta.content

\* The content stored: encrypted under the client's random key (secret) or
\* the passphrase (private) when the entity is server-encrypted.
SealContent(st) ==
    IF st.pasta.encrypt_server /\ ~st.pasta.readonly
           /\ st.pasta.content # EmptyText
    THEN IF st.pasta.encrypt_client
         THEN encrypt(st.pasta.content, st.random_key)
         ELSE encrypt(st.pasta.content, st.plain_key)
    ELSE st.pasta.content

\* The same step with the mode test left out.
SealKey_anymode(st) ==
    IF st.plain_key # ""
    THEN encrypt(Plain(id_to_string(st.pasta.id)), st.plain_key)
    ELSE st.pasta.encrypted_key

\* encrypted_key as stored: the id encrypted under plain_key for a readonly
\* entity with a passphrase, else what the loop left there.
SealKey(st) ==
    IF st.plain_key # "" /\ st.pasta.readonly
    THEN encrypt(Plain(id_to_string(st.pasta.id)), st.plain_key)
    ELSE st.pasta.encrypted_key

\* The key the content and the file are encrypted under, "" when the
\* entity is not server-encrypted.
SealedKey(st) ==
    IF st.pasta.encrypt_server /\ ~st.pasta.readonly
    THEN IF st.pasta.encrypt_client THEN st.random_key ELSE st.plain_key
    ELSE ""

\* The same step handing the uploaded bytes to the backend as they came.
StoreFile_cleartext(st, fs) ==
    LET pasta_id == id_as_animals(st.pasta.id)
        path     == generate_storage_path(pasta_id, st.pending.file.name)
    IN  IF ~st.pending.some
        THEN [file |-> NoFile, files |-> fs, saved |-> <<>>]
        ELSE [file  |-> SomeFile(IF args.s3_enabled THEN path
                                 ELSE st.pending.file.name),
              files |-> save_file(fs, pasta_id, path, st.pending.data),
              saved |-> << [key  |-> StorageKey(pasta_id, path),
                            data |-> st.pending.data] >>]

\* The pending file processed: the bytes saved (a successful save), the
\* PastaFile stored in the entity, and the save_file calls made (the key
\* and the bytes of each).
StoreFile(st, fs) ==
    LET pasta_id == id_as_animals(st.pasta.id)
        file     == st.pending.file
        shown    == display_name(file)
    IN  IF ~st.pending.some
        THEN [file |-> NoFile, files |-> fs, saved |-> <<>>]
        ELSE IF st.pasta.encrypt_server /\ ~st.pasta.readonly
        THEN LET key  == IF st.pasta.encrypt_client THEN st.random_key
                         ELSE st.plain_key
                 path == generate_storage_path(pasta_id, DataEnc)
             IN  [file  |-> SomeFile(IF args.s3_enabled
                                     THEN S3TagPrefix \o shown ELSE shown),
                  files |-> save_file(fs, pasta_id, path,
                                      encrypt_bytes(st.pending.data, key)),
                  saved |-> << [key  |-> StorageKey(pasta_id, path),
                                data |-> encrypt_bytes(st.pending.data,
                                                       key)] >>]
        ELSE LET path == generate_storage_path(pasta_id, file.name)
             IN  [file  |-> SomeFile(IF args.s3_enabled THEN path
                                     ELSE file.name),
                  files |-> save_file(fs, pasta_id, path, st.pending.data),
                  saved |-> << [key  |-> StorageKey(pasta_id, path),
                                data |-> st.pending.data] >>]

\* What create does from its first line to its last: the lock taken at
\* line 187, the save_file calls (ok: their outcome), the push and the
\* insert loop, or the panic of `.expect` on a failed save; the guard is
\* dropped when the function is left.
CreateEvents(saved, ok, inserts) ==
    <<LockEv>>
        \o [i \in 1..Len(saved) |->
               IoEv("save_file", saved[i].key, saved[i].data, ok)]
        \o (IF ok THEN <<StoreEv("push"), StoreEv("scan")>> \o inserts
            ELSE <<Ev("panic", "expect", <<>>, EmptyText, FALSE)>>)
        \o <<UnlockEv>>

\* The calls of db::insert the loop of lines 461-465 makes: one per entity
\* of the collection with the new id.
InsertEvents(ps, id) ==
    [i \in 1..Len(SelectSeq(ps, LAMBDA p : p.id = id)) |-> DbEv("insert", id)]

\* The insert loop after the push: one upsert per entity with the new id.
RECURSIVE InsertAll(_, _, _)
InsertAll(d, ps, id) ==
    IF ps = <<>> THEN d
    ELSE InsertAll(IF Head(ps).id = id THEN db_insert(d, Head(ps)) ELSE d,
                   Tail(ps), id)

\* The same step writing the new entity's fields into the entity that
\* already has the id, when there is one.
Pushed_upsert(ps, np) ==
    LET S == {i \in DOMAIN ps : ps[i].id = np.id}
    IN  IF S = {} THEN Append(ps, np)
        ELSE LET i == CHOOSE x \in S : \A y \in S : x <= y
             IN  [ps EXCEPT ![i] = [np EXCEPT !.uid = ps[i].uid]]

\* The same step refusing an id the collection already holds.
Pushed_unique(ps, np) ==
    IF \E i \in DOMAIN ps : ps[i].id = np.id THEN ps ELSE Append(ps, np)

\* The same step writing the new entity over the last one.
Pushed_overwrite(ps, np) ==
    IF ps = <<>> THEN <<np>> ELSE [ps EXCEPT ![Len(ps)] = np]

\* pastas.push(new_pasta), line 459: the entity goes to the end of the
\* collection, whatever the collection holds.
Pushed(ps, np) == Append(ps, np)

\* create: the whole handler for a request that draws `id`, carries
\* `fields` in this order and (cookie) a valid uploader cookie or not.
\* The handler holds the store lock from its first line to its last.
Create(id, fields, cookie) ==
    /\ created < MaxCreates
    /\ lock = "free"
    /\ created' = created + 1
    /\ LET st == ApplyFields(CreateLocals(created + 1, id, now), fields)
       IN  IF ~UploaderAllowed(st, cookie)
           THEN /\ last' = [Obs("create", id,
                                IF cookie THEN "uploader_token" ELSE "",
                                fields, NoPasta,
                                "incorrect", {}, NoPasta, EmptyText)
                               EXCEPT !.events = <<LockEv, UnlockEv>>]
                /\ UNCHANGED <<pastas, db, files>>
           ELSE LET sf == StoreFile(st, files)
                    np == [st.pasta EXCEPT !.encrypted_key = SealKey(st),
                                           !.content = SealContent(st),
                                           !.file = sf.file,
                                           !.sealed_key = SealedKey(st)]
                IN  /\ pastas' = Pushed(pastas, np)
                    /\ db' = InsertAll(db, Pushed(pastas, np), id)
                    /\ files' = sf.files
                    /\ last' = [Obs("create", id,
                                    IF cookie THEN "uploader_token" ELSE "",
                                    fields, np,
                                    IF np.encrypt_server THEN "auth_success"
                                    ELSE "upload",
                                    {}, NoPasta, EmptyText)
                                   EXCEPT !.events =
                                       CreateEvents(sf.saved, TRUE,
                                           InsertEvents(Pushed(pastas, np),
                                                        id))]
    /\ UNCHANGED <<args, now, inflight, lock>>

\* ----------------------------------------------------------------- lookups

\* The index of the first entity with this id (the handlers' scans), 0 when
\* there is none.
Position(ps, id) ==
    LET S == {i \in 1..Len(ps) : ps[i].id = id}
    IN  IF S = {} THEN 0 ELSE CHOOSE i \in S : \A j \in S : i <= j

\* The entity a scan by id finds.
Find(ps, id) == IF Position(ps, id) = 0 THEN NoPasta ELSE ps[Position(ps, id)]

\* Vec::remove(i).
RemoveAt(ps, i) == SubSeq(ps, 1, i - 1) \o SubSeq(ps, i + 1, Len(ps))

\* A set as a sequence, in some order.
RECURSIVE SetToSeq(_)
SetToSeq(S) ==
    IF S = {} THEN <<>>
    ELSE LET x == CHOOSE y \in S : TRUE IN <<x>> \o SetToSeq(S \ {x})

\* ------------------------------------------------- work outside the lock

\* The deletions that may be in flight at once.
MaxInflight == 1

\* A deletion under way outside the store lock: an explicit removal between
\* its two lock acquisitions (op "remove", "post_remove"), or an object-store
\* delete the sweep spawned (op "s3_delete").  pc is its next step:
\* "delete" (storage::delete_file) or "relock" (the second acquisition).
Flight(op, pc, id, password, hit, pasta_id, storage_path) ==
    [op |-> op, pc |-> pc, id |-> id, password |-> password, hit |-> hit,
     pasta_id |-> pasta_id, storage_path |-> storage_path, events |-> <<>>]

\* The tasks a sweep spawns, as entries of `inflight`.
Spawned(sw) ==
    SetToSeq({Flight("s3_delete", "delete", 0, "", NoPasta, t.pasta_id,
                     t.storage_path) : t \in sw.tasks})

Removals(fl) == SelectSeq(fl, LAMBDA e : e.op # "s3_delete")

\* The concatenation of a sequence of sequences.
RECURSIVE Concat(_)
Concat(seqs) ==
    IF seqs = <<>> THEN <<>> ELSE Head(seqs) \o Concat(Tail(seqs))

\* What the closure of retain does for each entity it drops, in this order
\* (misc.rs 38-84): the row of the id is deleted, the local file removed
\* (failing on the keys in `failed`) or an object-store delete spawned, and
\* on the closure's `false` the entity leaves the collection.
EvictEvents(ev, failed) ==
    [i \in 1..Len(ev) |->
        LET p == ev[i]
            k == StorageKey(id_as_animals(p.id), SweepStoragePath(p))
        IN  <<DbEv("delete", p.id)>>
                \o (IF ~p.file.some THEN <<>>
                    ELSE IF StartsWithS3Url(SweepStoragePath(p))
                    THEN <<Ev("spawn", "delete_file", KeyTokens(k),
                              EmptyText, TRUE)>>
                    ELSE <<IoEv("remove_file", k, EmptyText,
                                k \notin failed)>>)
                \o <<StoreEv("remove")>>]

\* What remove_expired does, called with the guard held: retain over the
\* collection, fs::remove_file on each local file (failing on the keys in
\* `failed`), one spawned task per object-store file.
SweepEvents(sw, failed) ==
    <<StoreEv("retain")>> \o Concat(EvictEvents(SetToSeq(sw.evicted), failed))

\* ---------------------------------------------------------------- get_file

\* The same handler without its sweep.
GetFileSwept_none(ps, timenow) ==
    [kept |-> ps, evicted |-> {}, rows |-> {}, local |-> {}, tasks |-> {}]

\* get_file, lines 118-119: the sweep before the lookup.
GetFileSwept(ps, timenow) == remove_expired(ps, timenow)

\* The same response without the test of encrypt_server.
GetFileResponse_noflag(hit, fs) ==
    IF hit # NoPasta /\ hit.file.some
    THEN LET got == get_file_bytes(fs, id_as_animals(hit.id),
                                   IF hit.encrypt_server
                                   THEN generate_storage_path(
                                            id_as_animals(hit.id), DataEnc)
                                   ELSE hit.file.name)
         IN  IF got.ok THEN [resp |-> "ok", body |-> got.val]
             ELSE [resp |-> "not_found", body |-> EmptyText]
    ELSE [resp |-> "not_found", body |-> EmptyText]

\* get_file after the lookup: the response for the entity found.
GetFileResponse(hit, fs) ==
    IF hit # NoPasta /\ hit.file.some
    THEN IF hit.encrypt_server
         THEN [resp |-> "auth_file", body |-> EmptyText]
         ELSE LET got == IF is_s3(hit.file)
                         THEN get_file_bytes(fs, id_as_animals(hit.id),
                                             hit.file.name)
                         ELSE LET k == [backend |-> "local",
                                        path |-> <<"attachments", "/",
                                                   id_as_animals(hit.id),
                                                   "/">> \o hit.file.name]
                              IN  IF k \in DOMAIN fs
                                  THEN [ok |-> TRUE, val |-> fs[k]]
                                  ELSE [ok |-> FALSE, val |-> EmptyText]
              IN  IF got.ok THEN [resp |-> "ok", body |-> got.val]
                  ELSE [resp |-> "not_found", body |-> EmptyText]
    ELSE [resp |-> "not_found", body |-> EmptyText]

\* What get_file does: the guard is taken at line 110 and lives to the end
\* of the function, so the read of the file (storage::get_file for an
\* object-store file, NamedFile::open for a local one) is made under it.
GetFileEvents(sw, hit, out) ==
    <<LockEv>> \o SweepEvents(sw, {}) \o <<StoreEv("scan")>>
        \o (IF hit # NoPasta /\ hit.file.some /\ ~hit.encrypt_server
            THEN << IoEv(IF is_s3(hit.file) THEN "get_file"
                         ELSE "NamedFile::open",
                         StorageKey(id_as_animals(hit.id), hit.file.name),
                         out.body, out.resp = "ok") >>
            ELSE <<>>)
        \o <<UnlockEv>>

\* GET /file/{id}: the whole handler (the lock is held throughout).
GetFile(id) ==
    LET sw  == GetFileSwept(pastas, now)
        fs  == SweptFiles(files, sw)
        hit == Find(sw.kept, id)
        out == GetFileResponse(hit, fs)
    IN  /\ lock = "free"
        /\ pastas' = sw.kept
        /\ db' = SweptDb(db, sw)
        /\ files' = fs
        /\ inflight' = inflight \o Spawned(sw)
        /\ last' = [Obs("get_file", id, "", <<>>, hit, out.resp, sw.evicted,
                        NoPasta, out.body)
                       EXCEPT !.events = GetFileEvents(sw, hit, out)]
        /\ UNCHANGED <<args, now, created, lock>>

\* -------------------------------------------------------- post_secure_file

\* post_secure_file after the lookup: the response for the entity found.
SecureFileResponse(hit, password, fs) ==
    IF hit # NoPasta /\ hit.file.some
    THEN LET pasta_id == id_as_animals(hit.id)
             path == IF is_s3_encrypted(hit.file)
                     THEN S3Url(pasta_id, DataEnc) ELSE DataEnc
             got  == get_file_bytes(fs, pasta_id, path)
             dec  == decrypt_bytes(got.val, password)
         IN  IF ~got.ok THEN [resp |-> "not_found", body |-> EmptyText]
             ELSE IF ~dec.ok
                  THEN [resp |-> "unauthorized", body |-> EmptyText]
                  ELSE [resp |-> "ok", body |-> dec.val]
    ELSE [resp |-> "not_found", body |-> EmptyText]

\* str.chars().take(8): the first eight characters of a password.  Every
\* password of the model but LongPassword is shorter than that.
LongPassword == "k1-long-passphrase"

First8(password) ==
    IF password = LongPassword THEN "k1-long-" ELSE password

\* What post_secure_file does: the guard is taken at line 21 and lives to
\* the end of the function; the password is read and its first characters
\* logged (lines 43-46) after the lookup, found or not; then the encrypted
\* file is fetched and decrypted.
SecureFileEvents(sw, hit, password, out) ==
    <<LockEv>> \o SweepEvents(sw, {}) \o <<StoreEv("scan")>>
        \o << LogEv("Received password/key length, first chars",
                    <<First8(password)>>) >>
        \o (IF hit # NoPasta /\ hit.file.some
            THEN LET pasta_id == id_as_animals(hit.id)
                     path == IF is_s3_encrypted(hit.file)
                             THEN S3Url(pasta_id, DataEnc) ELSE DataEnc
                 IN  << LogEv("Secure file download",
                              <<pasta_id>> \o hit.file.name),
                        LogEv("Fetching encrypted file from", path),
                        IoEv("get_file", StorageKey(pasta_id, path),
                             EmptyText, out.resp # "not_found") >>
            ELSE <<>>)
        \o <<UnlockEv>>

\* POST /secure_file/{id}: the whole handler (the lock is held throughout).
PostSecureFile(id, password) ==
    LET sw  == remove_expired(pastas, now)
        fs  == SweptFiles(files, sw)
        hit == Find(sw.kept, id)
        out == SecureFileResponse(hit, password, fs)
    IN  /\ lock = "free"
        /\ pastas' = sw.kept
        /\ db' = SweptDb(db, sw)
        /\ files' = fs
        /\ inflight' = inflight \o Spawned(sw)
        /\ last' = [Obs("post_secure_file", id, password, <<>>, hit,
                        out.resp, sw.evicted, NoPasta, out.body)
                       EXCEPT !.events =
                           SecureFileEvents(sw, hit, password, out)]
        /\ UNCHANGED <<args, now, created, lock>>

\* -------------------------------------------------------------- GET remove

\* The same test with the editable flag ignored.
NeedsPassword_noeditable(pasta) == pasta.encrypt_server \/ pasta.readonly

\* remove, line 30 (and post_remove's is_protected): the entity needs a
\* password to be deleted.
NeedsPassword(pasta) ==
    pasta.encrypt_server \/ pasta.readonly \/ ~pasta.editable

\* GET /remove/{id} up to its first return or lock release: the scan by id
\* comes first; the sweep runs only when the scan finds nothing.
Remove(id) ==
    LET i   == Position(pastas, id)
        hit == Find(pastas, id)
        sw  == remove_expired(pastas, now)
    IN  /\ lock = "free"
        /\ IF i = 0
           THEN /\ pastas' = sw.kept
                /\ db' = SweptDb(db, sw)
                /\ files' = SweptFiles(files, sw)
                /\ inflight' = inflight \o Spawned(sw)
                /\ last' = [Obs("remove", id, "", <<>>, hit, "error_page",
                                sw.evicted, NoPasta, EmptyText)
                               EXCEPT !.events =
                                   <<LockEv, StoreEv("scan")>>
                                       \o SweepEvents(sw, {})
                                       \o <<UnlockEv>>]
           ELSE IF NeedsPassword(hit)
           THEN /\ last' = [Obs("remove", id, "", <<>>, hit,
                                "auth_remove_private", {}, NoPasta,
                                EmptyText)
                               EXCEPT !.events =
                                   <<LockEv, StoreEv("scan"), UnlockEv>>]
                /\ UNCHANGED <<pastas, db, files, inflight>>
           ELSE IF hit.file.some
           THEN /\ Len(Removals(inflight)) < MaxInflight
                /\ inflight' = Append(inflight,
                       [Flight("remove", "delete", id, "", hit,
                               id_as_animals(hit.id), hit.file.name)
                          EXCEPT !.events =
                              <<LockEv, StoreEv("scan"), UnlockEv>>])
                /\ last' = [Obs("remove", id, "", <<>>, hit, "pending", {},
                                NoPasta, EmptyText)
                               EXCEPT !.events =
                                   <<LockEv, StoreEv("scan"), UnlockEv>>]
                /\ UNCHANGED <<pastas, db, files>>
           ELSE /\ pastas' = RemoveAt(pastas, i)
                /\ db' = db_delete(db, id)
                /\ last' = [Obs("remove", id, "", <<>>, hit, "list", {}, hit,
                                EmptyText)
                               EXCEPT !.events =
                                   <<LockEv, StoreEv("scan"),
                                     StoreEv("remove"), DbEv("delete", id),
                                     UnlockEv>>]
                /\ UNCHANGED <<files, inflight>>
        /\ UNCHANGED <<args, now, created, lock>>

\* ------------------------------------------------------------- POST remove

\* The same check accepting whatever decrypt returns.
PasswordCorrect_anyresult(pasta, id, password) ==
    \/ password = args.auth_admin_password
    \/ pasta.readonly
    \/ pasta.encrypt_server

\* post_remove, lines 141-155: is_password_correct.
PasswordCorrect(pasta, id, password) ==
    \/ password = args.auth_admin_password
    \/ /\ pasta.readonly
       /\ decrypt(pasta.encrypted_key, password).ok
       /\ decrypt(pasta.encrypted_key, password).val = Plain(id_to_string(id))
    \/ /\ ~pasta.readonly
       /\ pasta.encrypt_server
       /\ decrypt(pasta.content, password).ok

\* post_remove, lines 161-171: the storage path of the file to delete.
PostRemoveStoragePath(pasta) ==
    IF pasta.encrypt_server
    THEN IF is_s3_encrypted(pasta.file)
         THEN S3Url(id_as_animals(pasta.id), DataEnc)
         ELSE DataEnc
    ELSE pasta.file.name

\* The same test letting every request that found an entity go on.
should_delete_always(resp) == resp # "error_page"

\* post_remove, lines 182-198: the request goes on to delete only when the
\* entity is protected and the password was correct; every other request
\* has been answered by then.
should_delete(resp) == resp = "pending"

\* POST /remove/{id} up to the release of the lock (line 180) and the
\* responses that end the request there.
PostRemove(id, password) ==
    LET sw  == remove_expired(pastas, now)
        hit == Find(sw.kept, id)
        resp == IF hit = NoPasta THEN "error_page"
                ELSE IF ~NeedsPassword(hit) THEN "upload"
                ELSE IF password = "" THEN "incorrect"
                ELSE IF PasswordCorrect(hit, id, password) THEN "pending"
                ELSE "incorrect"
        evs == <<LockEv>> \o SweepEvents(sw, {})
                   \o <<StoreEv("scan"), UnlockEv>>
    IN  /\ lock = "free"
        /\ pastas' = sw.kept
        /\ db' = SweptDb(db, sw)
        /\ files' = SweptFiles(files, sw)
        /\ IF should_delete(resp)
           THEN /\ Len(Removals(inflight)) < MaxInflight
                /\ inflight' = (inflight \o Spawned(sw)) \o
                       << [Flight("post_remove",
                                  IF hit.file.some THEN "delete" ELSE "relock",
                                  id, password, hit, id_as_animals(hit.id),
                                  IF hit.file.some
                                  THEN PostRemoveStoragePath(hit) ELSE <<>>)
                             EXCEPT !.events = evs] >>
           ELSE inflight' = inflight \o Spawned(sw)
        /\ last' = [Obs("post_remove", id, password, <<>>, hit, resp,
                        sw.evicted, NoPasta, EmptyText)
                       EXCEPT !.events = evs]
        /\ UNCHANGED <<args, now, created, lock>>

\* ----------------------------------------------- steps outside the lock

\* The same step trying a failed delete a second time.
DeleteEvents_retry(fl, ok) ==
    LET call == IoEv("delete_file", StorageKey(fl.pasta_id, fl.storage_path),
                     EmptyText, ok)
    IN  IF ok THEN <<call>>
        ELSE <<call, LogEv("Failed to delete file", fl.storage_path), call,
               LogEv("Failed to delete file", fl.storage_path)>>

\* The call of storage::delete_file by a deletion in flight, and the error
\* record logged when it fails.
DeleteEvents(fl, ok) ==
    << IoEv("delete_file", StorageKey(fl.pasta_id, fl.storage_path),
            EmptyText, ok) >>
        \o (IF ok THEN <<>>
            ELSE <<LogEv("Failed to delete file", fl.storage_path)>>)

\* storage::delete_file of a deletion in flight (a successful delete).
DeleteBytes(i) ==
    /\ i \in 1..Len(inflight)
    /\ inflight[i].pc = "delete"
    /\ files' = delete_file(files, inflight[i].pasta_id,
                            inflight[i].storage_path)
    /\ inflight' = IF inflight[i].op = "s3_delete"
                   THEN RemoveAt(inflight, i)
                   ELSE [inflight EXCEPT
                            ![i].pc = "relock",
                            ![i].events = @ \o DeleteEvents(inflight[i], TRUE)]
    /\ last' = [Obs("delete_file", inflight[i].id, "", <<>>,
                    inflight[i].hit, "", {}, NoPasta, EmptyText)
                   EXCEPT !.events = inflight[i].events
                                         \o DeleteEvents(inflight[i], TRUE)]
    /\ UNCHANGED <<args, pastas, db, now, created, lock>>

\* storage::delete_file of a deletion in flight returning an error: the
\* bytes stay, the error is logged (remove.rs 47-49, 202-204; misc.rs
\* 64-66), and the request goes on.
DeleteFails(i) ==
    /\ i \in 1..Len(inflight)
    /\ inflight[i].pc = "delete"
    /\ inflight' = IF inflight[i].op = "s3_delete"
                   THEN RemoveAt(inflight, i)
                   ELSE [inflight EXCEPT
                            ![i].pc = "relock",
                            ![i].events = @ \o DeleteEvents(inflight[i], FALSE)]
    /\ last' = [Obs("delete_file", inflight[i].id, "", <<>>,
                    inflight[i].hit, "failed", {}, NoPasta, EmptyText)
                   EXCEPT !.events = inflight[i].events
                                         \o DeleteEvents(inflight[i], FALSE)]
    /\ UNCHANGED <<args, pastas, db, files, now, created, lock>>

\* The same steps without the lock being taken again.
RelockEvents_nolock(found, id) ==
    <<StoreEv("scan")>> \o (IF found THEN <<StoreEv("remove")>> ELSE <<>>)
        \o <<DbEv("delete", id)>>

\* What a deletion does after delete_file: the lock is taken again
\* (remove.rs 52, 209), the collection scanned for the id, the entity
\* removed if found, and the guard dropped on return.
RelockEvents(found, id) ==
    <<LockEv, StoreEv("scan")>>
        \o (IF found THEN <<StoreEv("remove")>> ELSE <<>>)
        \o <<DbEv("delete", id), UnlockEv>>

\* The second lock acquisition of remove (lines 52-71) and post_remove
\* (lines 208-221): the first entity with the id, if any, is removed, and
\* the row of the id deleted.
FinishRemove(i) ==
    /\ i \in 1..Len(inflight)
    /\ inflight[i].pc = "relock"
    /\ lock = "free"
    /\ LET id  == inflight[i].id
           idx == Position(pastas, id)
       IN  /\ pastas' = IF idx = 0 THEN pastas ELSE RemoveAt(pastas, idx)
           /\ db' = db_delete(db, id)
           /\ last' = [Obs(IF inflight[i].op = "remove" THEN "remove_relock"
                           ELSE "post_remove_relock",
                           id, inflight[i].password, <<>>, inflight[i].hit,
                           "list", {}, Find(pastas, id), EmptyText)
                          EXCEPT !.events =
                              inflight[i].events \o RelockEvents(idx # 0, id)]
    /\ inflight' = RemoveAt(inflight, i)
    /\ UNCHANGED <<args, files, now, created, lock>>

\* ---------------------------------------------------------------- the clock

\* The clock value at start-up: one day after the epoch.
StartTime == SecondsPerDay

\* The clock values of the handlers' specification: start-up, and the
\* moment a "1min" entity created at start-up expires.
ClockValues == {StartTime, StartTime + 60}

\* Time passes.
Tick ==
    /\ \E t \in ClockValues : t > now /\ now' = t
    /\ last' = Obs("tick", 0, "", <<>>, NoPasta, "", {}, NoPasta, EmptyText)
    /\ UNCHANGED <<args, pastas, db, files, inflight, created, lock>>

\* ------------------------------------------- the handlers' specification

\* The ids creations draw and requests name (create draws a random u16 and
\* checks nothing, so two creations may draw the same id).
Ids == {1, 2}

\* The passwords requests carry: none, the key in use, another key, the
\* admin's.
Passwords == {"", "k1", "k2", "admin"}

\* The passwords of the specification of all handlers: none, the key in use.
FewPasswords == {"", "k1"}

FileName == <<"a.txt">>

\* The creation requests of the handlers' specification: a public text
\* that never expires, a public file and a private file without text that
\* expire after a minute, a readonly and a private text that never expire.
Requests ==
    { <<Field("privacy", "public"), Field("expiration", "never"),
        Field("content", "c")>>,
      <<Field("privacy", "public"), Field("expiration", "1min"),
        Field("content", "c"), FileField(FileName, "f")>>,
      <<Field("privacy", "readonly"), Field("plain_key", "k1"),
        Field("expiration", "never"), Field("content", "c")>>,
      <<Field("privacy", "private"), Field("plain_key", "k1"),
        Field("expiration", "1min"), FileField(FileName, "f")>>,
      <<Field("privacy", "private"), Field("plain_key", "k1"),
        Field("expiration", "never"), Field("content", "c")>> }

\* Start-up with an empty store under the configuration cfg =
\* <<ARGS.editable, S3 enabled>> (no inactivity sweep, eternal pastes
\* allowed).
Startup(cfg) ==
    /\ args = Args(0, TRUE, cfg[1], cfg[2], "24hour")
    /\ pastas = <<>>
    /\ db = << >>
    /\ files = << >>
    /\ now = StartTime
    /\ inflight = <<>>
    /\ created = 0
    /\ last = NoObs
    /\ lock = "free"

\* Editable pastes, on local storage or on S3.
Init == \E cfg \in {<<TRUE, FALSE>>, <<TRUE, TRUE>>} : Startup(cfg)

\* Editable or immutable pastes on local storage, editable pastes on S3.
InitRemove ==
    \E cfg \in {<<TRUE, FALSE>>, <<FALSE, FALSE>>, <<TRUE, TRUE>>} :
        Startup(cfg)

Next ==
    \/ \E id \in Ids, fields \in Requests : Create(id, fields, FALSE)
    \/ \E id \in Ids : GetFile(id)
    \/ \E id \in Ids, password \in FewPasswords : PostSecureFile(id, password)
    \/ \E id \in Ids : Remove(id)
    \/ \E id \in Ids, password \in FewPasswords : PostRemove(id, password)
    \/ \E i \in DOMAIN inflight : DeleteBytes(i)
    \/ \E i \in DOMAIN inflight : FinishRemove(i)
    \/ Tick

\* Every handler, the steps outside the lock and the clock.
Spec == Init /\ [][Next]_vars

NextRemove ==
    \/ \E id \in Ids, fields \in Requests : Create(id, fields, FALSE)
    \/ \E id \in Ids : Remove(id)
    \/ \E id \in Ids, password \in Passwords : PostRemove(id, password)
    \/ \E i \in DOMAIN inflight : DeleteBytes(i)
    \/ \E i \in DOMAIN inflight : FinishRemove(i)
    \/ Tick

\* Creation and explicit deletion, under every password.
SpecRemove == InitRemove /\ [][NextRemove]_vars

\* ------------------------------------------- the sweep on its own (SpecSweep)

\* The clock value of the sweep specification: three days after the epoch.
SweepClock == 3 * SecondsPerDay

\* now - last_read of the entity under the sweep, in seconds: either side of
\* one and two days, and a last_read later than now.
SweepGaps ==
    {0, SecondsPerDay - 1, SecondsPerDay, 2 * SecondsPerDay - 1,
     2 * SecondsPerDay, -1, 1 - SecondsPerDay, -SecondsPerDay}

\* A store holding one entity whose lifecycle fields are drawn freely (the
\* collection is reloaded from the durable index at start-up, and the clock
\* is the machine's), under each retention setting.
InitSweep ==
    /\ \E g \in 0..2 : args = Args(g, TRUE, TRUE, FALSE, "never")
    /\ now = SweepClock
    /\ \E e \in {0, SweepClock - 1, SweepClock, SweepClock + 1},
          rc \in {0, 1, 9, 10}, burn \in {0, 1, 10}, gap \in SweepGaps :
          pastas = << Pasta(1, 1, Plain("c"), NoFile, FALSE, FALSE, TRUE,
                            FALSE, FALSE, EmptyText, 0, e,
                            SweepClock - gap, rc, burn) >>
    /\ db = [i \in {1} |-> pastas[1]]
    /\ files = << >>
    /\ inflight = <<>>
    /\ created = 1
    /\ last = NoObs
    /\ lock = "free"

\* remove_expired applied to the collection.
SweepOnly ==
    LET sw == remove_expired(pastas, now)
    IN  /\ pastas' = sw.kept
        /\ db' = SweptDb(db, sw)
        /\ files' = SweptFiles(files, sw)
        /\ inflight' = inflight \o Spawned(sw)
        /\ last' = [Obs("sweep", 0, "", <<>>, NoPasta, "", sw.evicted,
                        NoPasta, EmptyText)
                       EXCEPT !.events = SweepEvents(sw, {})]
        /\ UNCHANGED <<args, now, created, lock>>

NextSweep == SweepOnly

SpecSweep == InitSweep /\ [][NextSweep]_vars

\* ------------------------------------------------------------- claims C1, C2

\* The expiry clause of the eviction predicate, as the specification states it.
ExpiryReached(p, t) == p.expiration # 0 /\ p.expiration <= t

\* The read-budget clause, as the specification states it.
BudgetExhausted(p) ==
    p.burn_after_reads # 0 /\ p.read_count >= p.burn_after_reads

\* The inactivity clause, as the specification states it.
Inactive(p, t) ==
    args.gc_days # 0 /\ (t - p.last_read) >= args.gc_days * SecondsPerDay

\* C1: after a sweep at clock value t, no entity that is left has reached its
\* expiration (expiration # 0 and expiration <= t) or used up its read budget
\* (burn_after_reads # 0 and read_count >= burn_after_reads); and with the
\* inactivity clause off (gc_days = 0) every evicted entity met one of the
\* two, so expiration = t + 1, expiration = 0, read_count =
\* burn_after_reads - 1 and burn_after_reads = 0 evict nothing.
C1_SweepExpiryAndBudget ==
    last.op = "sweep" =>
        /\ \A p \in Range(pastas) :
               ~ExpiryReached(p, last.at) /\ ~BudgetExhausted(p)
        /\ args.gc_days = 0 =>
               \A p \in last.evicted :
                   ExpiryReached(p, last.at) \/ BudgetExhausted(p)

\* C1's case: a sweep evicted an entity exactly at its expiration
\* (expiration = now) whose read budget was not used up.
C1_Witness ==
    /\ last.op = "sweep"
    /\ args.gc_days = 0
    /\ \E p \in last.evicted :
           p.expiration = last.at /\ ~BudgetExhausted(p)

\* C2 as stated: with gc_days # 0 the sweep evicts on inactivity grounds
\* exactly when now - last_read >= gc_days * 86400, and with gc_days = 0
\* never.
C2_InactivityExact ==
    last.op = "sweep" =>
        /\ \A p \in Range(pastas) : ~Inactive(p, last.at)
        /\ \A p \in last.evicted :
               ExpiryReached(p, last.at) \/ BudgetExhausted(p)
                   \/ Inactive(p, last.at)

\* ------------------------------------------------------------- claims C3, C4

\* The eviction predicate, as the specification states it.
Evictable(p, t) ==
    ExpiryReached(p, t) \/ BudgetExhausted(p) \/ Inactive(p, t)

\* C3: a get_file or post_secure_file request at clock value t leaves no
\* evictable entity in the store (the sweep came first), returns file bytes
\* only for an entity with the requested id that is not evictable at t, and
\* answers not found when its lookup finds no entity: an entity that was
\* evictable at t is among the evicted, never the one served.
C3_NoBytesOfEvictable ==
    last.op \in {"get_file", "post_secure_file"} =>
        /\ \A p \in Range(pastas) : ~Evictable(p, last.at)
        /\ \A p \in last.evicted : p # last.hit
        /\ last.resp = "ok" =>
               /\ last.hit # NoPasta
               /\ last.hit.id = last.id
               /\ last.hit \in Range(pastas)
               /\ ~Evictable(last.hit, last.at)
        /\ last.hit = NoPasta => last.resp = "not_found"

\* C3's case: a get_file request for an id whose only entity, holding a
\* file, had expired: the entity is evicted and the answer is not found.
C3_Witness ==
    /\ last.op = "get_file"
    /\ last.resp = "not_found"
    /\ last.hit = NoPasta
    /\ \E p \in last.evicted :
           p.id = last.id /\ p.file.some /\ ExpiryReached(p, last.at)

\* C4 as stated: in GET remove, POST remove, get_file and post_secure_file
\* the sweep runs before the lookup, so that the entity a lookup finds at
\* clock value t is never evictable at t.
C4_SweepBeforeLookup ==
    last.op \in {"remove", "post_remove", "get_file", "post_secure_file"} =>
        (last.hit # NoPasta => ~Evictable(last.hit, last.at))

\* ------------------------------------------------------- claims C5, C6, C7

\* C5 as stated: POST remove authorises the deletion of a server-encrypted
\* (Private or Secret) entity only for the admin password or the key its
\* content was encrypted under at creation.
C5_EncryptedNeedsKey ==
    (last.op = "post_remove" /\ last.hit # NoPasta /\ last.hit.encrypt_server
         /\ last.resp = "pending") =>
        \/ last.password = args.auth_admin_password
        \/ last.password = last.hit.sealed_key

\* C6: for the Readonly entity a POST remove finds, created with the
\* non-empty passphrase p (encrypted_key is the ciphertext of the id under
\* p): the password p authorises the removal, and once the request has
\* completed the entity is gone from the store; a password that is neither
\* p nor the admin's is answered like the empty password ("incorrect") and
\* the entity stays.
C6_ReadonlyOwnership ==
    /\ (last.op = "post_remove" /\ last.hit # NoPasta /\ last.hit.readonly
            /\ last.hit.encrypted_key.enc
            /\ last.hit.encrypted_key.key # "") =>
           IF last.password = last.hit.encrypted_key.key
           THEN last.resp = "pending"
           ELSE IF last.password # args.auth_admin_password
           THEN last.resp = "incorrect" /\ last.hit \in Range(pastas)
           ELSE TRUE
    /\ (last.op = "post_remove_relock" /\ last.hit.readonly) =>
           last.hit \notin Range(pastas)

\* C6's case: the owner's passphrase was accepted for a Readonly entity and
\* the request completed by removing that entity.
C6_Witness ==
    /\ last.op = "post_remove_relock"
    /\ last.hit.readonly
    /\ last.password = last.hit.encrypted_key.key
    /\ last.password # ""
    /\ last.removed = last.hit

\* The entity is editable and neither server-encrypted nor readonly.
Unprotected(p) == p.editable /\ ~p.encrypt_server /\ ~p.readonly

PrivacyValues == {"public", "readonly", "private", "secret", "unlisted"}

\* The orders in which four fields can arrive.
FieldOrders ==
    {p \in [1..4 -> 1..4] : \A i, j \in 1..4 : p[i] = p[j] => i = j}

\* A request carrying privacy, content, plain_key and random_key, in every
\* order.
PermutedRequests ==
    { [i \in 1..4 |->
          << Field("privacy", v), Field("content", "c"),
             Field("plain_key", "k1"), Field("random_key", "k2") >>[p[i]]] :
        v \in PrivacyValues, p \in FieldOrders }

\* A request in the form's order, each field present or absent.
OptionalRequests ==
    { a \o b \o c \o d \o e \o f :
        a \in {<<>>} \cup {<<Field("privacy", v)>> : v \in PrivacyValues},
        b \in {<<>>, <<Field("content", "c")>>},
        c \in {<<>>, <<Field("plain_key", "k1")>>},
        d \in {<<>>, <<Field("random_key", "k2")>>},
        e \in {<<>>, <<Field("encrypted_random_key", "erk")>>},
        f \in {<<>>, <<FileField(FileName, "f")>>} }

\* A request whose file arrives before its privacy field and its keys,
\* uploaded under a bare name or under a path.
FileFirstRequests ==
    { << FileField(n, "f"), Field("privacy", v), Field("plain_key", "k1"),
         Field("random_key", "k2") >> :
        n \in {FileName, <<"dir", "/">> \o FileName}, v \in PrivacyValues }

RichRequests == PermutedRequests \cup OptionalRequests \cup FileFirstRequests

\* An empty store, on local storage or on S3.
InitCreate == \E cfg \in {<<TRUE, FALSE>>, <<TRUE, TRUE>>} : Startup(cfg)

NextCreate ==
    \/ \E fields \in RichRequests : pastas = <<>> /\ Create(1, fields, FALSE)
    \/ \E id \in Ids : GetFile(id)
    \/ Tick

\* Creation into an empty store under every request, then reads of the
\* file and the clock.
SpecCreate == InitCreate /\ [][NextCreate]_vars

\* ----------------------------------------------------- claims C8, C9, C10

\* The value of the last field of this name in a request, "" when there is
\* none.
LastValue(fields, name) ==
    LET S == {i \in 1..Len(fields) : fields[i].name = name}
    IN  IF S = {} THEN ""
        ELSE fields[CHOOSE i \in S : \A j \in S : j <= i].val

ModeFlags(p) == <<p.private, p.readonly, p.encrypt_server, p.encrypt_client>>

PublicFlags   == <<FALSE, FALSE, FALSE, FALSE>>
ReadonlyFlags == <<TRUE, TRUE, FALSE, FALSE>>
PrivateFlags  == <<TRUE, FALSE, TRUE, FALSE>>
SecretFlags   == <<TRUE, FALSE, TRUE, TRUE>>
OtherFlags    == <<TRUE, FALSE, FALSE, FALSE>>

\* C8 as stated: every entity in the store carries one of the four
\* combinations of (private, readonly, encrypt_server, encrypt_client).
C8_FourModes ==
    \A p \in Range(pastas) :
        ModeFlags(p) \in {PublicFlags, ReadonlyFlags, PrivateFlags, SecretFlags}

\* C8, amended: every entity in the store carries one of the four
\* combinations or, for a privacy value other than public, readonly,
\* private and secret, (private, not readonly, not encrypt_server, not
\* encrypt_client); encrypt_client implies encrypt_server, and readonly
\* excludes encrypt_server.
C8_ModesWithFallback ==
    \A p \in Range(pastas) :
        /\ ModeFlags(p) \in {PublicFlags, ReadonlyFlags, PrivateFlags,
                             SecretFlags, OtherFlags}
        /\ p.encrypt_client => p.encrypt_server
        /\ p.readonly => ~p.encrypt_server

\* C8's case: a creation whose privacy field is none of the four values
\* committed an entity that is private and nothing else.
C8_Witness ==
    /\ last.op = "create"
    /\ LastValue(last.req, "privacy") = "unlisted"
    /\ last.hit \in Range(pastas)
    /\ ModeFlags(last.hit) = OtherFlags

\* C9 as stated: encrypted_key is empty for every entity not in Readonly
\* mode, whatever fields the request carried.
C9_KeyEmptyOutsideReadonly ==
    \A p \in Range(pastas) : ~p.readonly => p.encrypted_key = EmptyText

\* C9, amended: a creation that commits an entity not in Readonly mode
\* stores as encrypted_key the request's encrypted_random_key field, the
\* empty string when the request carried none; plain_key puts no token
\* there.
C9_KeyIsRequestField ==
    (last.op = "create" /\ last.hit # NoPasta /\ ~last.hit.readonly) =>
        last.hit.encrypted_key =
            Plain(LastValue(last.req, "encrypted_random_key"))

\* C9's case: a Private creation carrying plain_key and
\* encrypted_random_key committed an entity whose encrypted_key is the
\* latter.
C9_Witness ==
    /\ last.op = "create"
    /\ ModeFlags(last.hit) = PrivateFlags
    /\ LastValue(last.req, "plain_key") = "k1"
    /\ last.hit.encrypted_key = Plain("erk")

\* C10: a creation with non-empty content c stores, in Private mode, the
\* ciphertext of c under the request's plain_key; in Secret mode, the
\* ciphertext of c under the request's random_key; in Public and Readonly
\* modes, c verbatim; in whatever order privacy, content, plain_key and
\* random_key arrive.
C10_ContentAtRest ==
    (last.op = "create" /\ last.hit # NoPasta
         /\ LastValue(last.req, "content") # "") =>
        LET c    == LastValue(last.req, "content")
            mode == LastValue(last.req, "privacy")
        IN  /\ mode = "private" =>
                   last.hit.content =
                       [enc |-> TRUE, s |-> c,
                        key |-> LastValue(last.req, "plain_key")]
            /\ mode = "secret" =>
                   last.hit.content =
                       [enc |-> TRUE, s |-> c,
                        key |-> LastValue(last.req, "random_key")]
            /\ mode \in {"public", "readonly"} =>
                   last.hit.content = [enc |-> FALSE, s |-> c, key |-> ""]

\* C10's case: a Secret creation whose content and keys arrived before its
\* privacy field stored the content encrypted under random_key.
C10_Witness ==
    /\ last.op = "create"
    /\ Len(last.req) = 4
    /\ last.req[4].name = "privacy"
    /\ last.req[4].val = "secret"
    /\ last.req[1].name = "plain_key"
    /\ last.hit.content = [enc |-> TRUE, s |-> "c", key |-> "k2"]

\* ---------------------------------------------------------------- claim C11

\* The calls of this name among a request's events.
Calls(events, what) ==
    SelectSeq(events, LAMBDA e : e.kind = "io" /\ e.what = what)

\* The bytes of the last file field of a request.
LastFileBytes(fields) ==
    LET S == {i \in 1..Len(fields) :
                fields[i].name = "file" /\ fields[i].fname # <<>>}
    IN  fields[CHOOSE i \in S : \A j \in S : j <= i].val

\* The directory of an entity's bytes, on the backend in use.
BytesDir(p) ==
    <<IF args.s3_enabled THEN "s3" ELSE "local", "attachments", "/",
      id_to_string(p.id), "/">>

\* C11: a creation that commits an entity with a file makes one save_file
\* call: for a server-encrypted entity with the ciphertext of the uploaded
\* bytes under the request's key (random_key in Secret mode, plain_key in
\* Private mode) at attachments/<slug>/data.enc, otherwise with the
\* cleartext bytes at attachments/<slug>/<sanitized filename>; a creation
\* without a file makes none; no save_file call of a server-encrypted
\* entity carries cleartext.
C11_SavedBytes ==
    (last.op = "create" /\ last.hit # NoPasta) =>
        LET saves == Calls(last.events, "save_file")
            key   == IF last.hit.encrypt_client
                     THEN LastValue(last.req, "random_key")
                     ELSE LastValue(last.req, "plain_key")
        IN  /\ ~last.hit.file.some => saves = <<>>
            /\ last.hit.file.some =>
                   /\ Len(saves) = 1
                   /\ saves[1].ok
                   /\ IF last.hit.encrypt_server
                      THEN /\ saves[1].arg = BytesDir(last.hit) \o <<"data.enc">>
                           /\ saves[1].data =
                                  [enc |-> TRUE, key |-> key,
                                   s |-> LastFileBytes(last.req)]
                      ELSE /\ saves[1].arg = BytesDir(last.hit) \o FileName
                           /\ saves[1].data =
                                  [enc |-> FALSE, key |-> "",
                                   s |-> LastFileBytes(last.req)]
            /\ \A i \in 1..Len(saves) :
                   last.hit.encrypt_server => saves[i].data.enc

\* C11's case: a Secret creation on S3 whose file, uploaded under a path,
\* arrived before the privacy field saved the ciphertext at data.enc.
C11_Witness ==
    /\ last.op = "create"
    /\ args.s3_enabled
    /\ last.hit.encrypt_client
    /\ last.hit.file.some
    /\ last.req[1].name = "file"
    /\ last.req[1].fname = <<"dir", "/", "a.txt">>
    /\ Len(Calls(last.events, "save_file")) = 1
    /\ Calls(last.events, "save_file")[1].data.enc

\* ------------------------------------------------------------------ claim C12

\* The key material a request carries: the password of post_secure_file and
\* post_remove, the plain_key and random_key fields of create.
KeyMaterial(o) ==
    ({o.password} \cup {o.req[i].val : i \in {j \in DOMAIN o.req :
                            o.req[j].name \in {"plain_key", "random_key"}}})
        \ {""}

\* The parts of a key a record may hold: the key itself and its first eight
\* characters.
KeyParts(k) == {k, First8(k)}

\* The values the log records of a request carry.
Logged(events) ==
    UNION {Range(events[i].arg) :
              i \in {j \in DOMAIN events : events[j].kind = "log"}}

\* The readable strings an entity holds (a ciphertext is not readable).
StoredStrings(p) ==
    {t.s : t \in {x \in {p.content, p.encrypted_key} : ~x.enc}}

\* C12: no key supplied to create, post_secure_file or post_remove is
\* written, in whole or in part, into a stored entity, the durable index or
\* a log record.
C12_KeyNeverWritten ==
    last.op \in {"create", "post_secure_file", "post_remove"} =>
        \A k \in KeyMaterial(last) : \A part \in KeyParts(k) :
            /\ part \notin Logged(last.events)
            /\ \A i \in DOMAIN pastas : part \notin StoredStrings(pastas[i])
            /\ \A id \in DOMAIN db : part \notin StoredStrings(db[id])

\* ------------------------------------------------------------------ claim C13

\* C13: create commits no entity whose content or file is encrypted under
\* the empty string.
C13_EmptyKeyRejected ==
    (last.op = "create" /\ last.hit # NoPasta) =>
        LET saves == Calls(last.events, "save_file")
        IN  /\ last.hit.content.enc => last.hit.content.key # ""
            /\ \A i \in DOMAIN saves :
                   saves[i].data.enc => saves[i].data.key # ""

\* --------------------------------------- failures of the backend (SpecIO)

\* The same outcome with the entity committed in spite of the failure.
SaveFailed_commit(ps, d, np, id) ==
    [pastas |-> Append(ps, np), db |-> InsertAll(d, Append(ps, np), id)]

\* The collection and the index when save_file returns an error: `.expect`
\* (create.rs 433, 446) panics before the push of line 459 and the insert
\* loop, so neither has changed.
SaveFailed(ps, d, np, id) == [pastas |-> ps, db |-> d]

\* create for a request with a file whose save_file fails: the handler
\* panics with the guard held, which poisons the mutex (every later
\* `lock().unwrap()` panics in its turn).  No byte is taken as written.
CreateSaveFails(id, fields, cookie) ==
    /\ created < MaxCreates
    /\ lock = "free"
    /\ LET st == ApplyFields(CreateLocals(created + 1, id, now), fields)
           sf == StoreFile(st, files)
           np == [st.pasta EXCEPT !.encrypted_key = SealKey(st),
                                  !.content = SealContent(st),
                                  !.file = sf.file,
                                  !.sealed_key = SealedKey(st)]
           out == SaveFailed(pastas, db, np, id)
       IN  /\ UploaderAllowed(st, cookie)
           /\ sf.saved # <<>>
           /\ pastas' = out.pastas
           /\ db' = out.db
           /\ last' = [Obs("create", id, "", fields, NoPasta, "panic", {},
                           NoPasta, EmptyText)
                          EXCEPT !.events = CreateEvents(sf.saved, FALSE, <<>>)]
    /\ created' = created + 1
    /\ lock' = "poisoned"
    /\ UNCHANGED <<args, files, now, inflight>>

\* The local key the sweep removes for an evicted entity with a local file.
SweepLocalKey(p) == StorageKey(id_as_animals(p.id), SweepStoragePath(p))

\* The same sweep keeping an entity whose file could not be removed.
SweepKept_rollback(ps, sw, failed) ==
    SelectSeq(ps, LAMBDA p : \/ p \notin sw.evicted
                             \/ p.file.some /\ SweepLocalKey(p) \in failed)

\* The collection after a sweep some of whose fs::remove_file calls failed:
\* the error is logged and the closure of retain returns false all the
\* same (misc.rs 76-84).
SweepKept(ps, sw, failed) == sw.kept

\* The durable index after such a sweep: delete(None, Some(p.id)) is called
\* before the file is touched (misc.rs 40).
SweepRows(d, ps, sw, failed) ==
    [x \in DOMAIN d \ {p.id : p \in sw.evicted \ Range(SweepKept(ps, sw, failed))}
        |-> d[x]]

\* GET /file/{id} when fs::remove_file fails on the keys in `failed` during
\* the sweep of lines 118-119.
GetFileLossy(id, failed) ==
    LET sw  == GetFileSwept(pastas, now)
        fs  == SweptFilesBut(files, sw, failed)
        ps  == SweepKept(pastas, sw, failed)
        hit == Find(ps, id)
        out == GetFileResponse(hit, fs)
    IN  /\ lock = "free"
        /\ failed # {} /\ failed \subseteq sw.local
        /\ pastas' = ps
        /\ db' = SweepRows(db, pastas, sw, failed)
        /\ files' = fs
        /\ inflight' = inflight \o Spawned(sw)
        /\ last' = [Obs("get_file", id, "", <<>>, hit, out.resp, sw.evicted,
                        NoPasta, out.body)
                       EXCEPT !.events = <<LockEv>> \o SweepEvents(sw, failed)
                                             \o <<StoreEv("scan"), UnlockEv>>]
        /\ UNCHANGED <<args, now, created, lock>>

NextIO ==
    \/ \E id \in Ids, fields \in Requests : Create(id, fields, FALSE)
    \/ \E id \in Ids, fields \in Requests : CreateSaveFails(id, fields, FALSE)
    \/ \E id \in Ids : GetFile(id)
    \/ \E id \in Ids, failed \in SUBSET DOMAIN files : GetFileLossy(id, failed)
    \/ \E id \in Ids : Remove(id)
    \/ \E id \in Ids, password \in FewPasswords : PostRemove(id, password)
    \/ \E i \in DOMAIN inflight : DeleteBytes(i)
    \/ \E i \in DOMAIN inflight : DeleteFails(i)
    \/ \E i \in DOMAIN inflight : FinishRemove(i)
    \/ Tick

\* The handlers with a backend whose writes and deletes may fail.
SpecIO == Init /\ [][NextIO]_vars

\* ------------------------------------------------------------------ claim C14

\* C14: a creation whose save_file fails commits nothing: the collection
\* and the durable index hold after the request exactly what they held
\* before it.
C14_FailedSaveCommitsNothing ==
    [][ (last'.op = "create" /\ last'.resp = "panic") =>
            (pastas' = pastas /\ db' = db) ]_vars

\* A creation failed on its save in a store that holds an entity.
C14_Witness ==
    /\ last.op = "create" /\ last.resp = "panic"
    /\ \E i \in DOMAIN last.events :
           last.events[i].what = "save_file" /\ ~last.events[i].ok
    /\ pastas # <<>> /\ DOMAIN db # {}

\* ------------------------------------------------------------------ claim C15

\* The backend calls of a request that returned an error.
FailedCalls(events, what) ==
    SelectSeq(Calls(events, what), LAMBDA e : ~e.ok)

\* C15: whatever becomes of the deletion of their bytes, the entities a
\* sweep finds evictable are all out of the collection and of the durable
\* index when it ends, and a failed object-store delete task puts nothing
\* back.
C15_SweepRemovesDespiteFailure ==
    [][ /\ last'.evicted # {} =>
              /\ \A p \in last'.evicted :
                     p \notin Range(pastas') /\ p.id \notin DOMAIN db'
              /\ \A p \in Range(pastas') : ~Evictable(p, last'.at)
        /\ (last'.op = "delete_file" /\ last'.resp = "failed"
                /\ last'.hit = NoPasta) =>
              (pastas' = pastas /\ db' = db) ]_vars

\* A sweep that evicted two entities with local files and failed to remove
\* the file of one of them.
C15_Witness ==
    /\ last.op = "get_file"
    /\ Cardinality(last.evicted) = 2
    /\ Len(FailedCalls(last.events, "remove_file")) = 1
    /\ Len(Calls(last.events, "remove_file")) = 2
    /\ pastas = <<>> /\ DOMAIN db = {}
    /\ DOMAIN files # {}

\* ------------------------------------------------------------------ claim C16

\* C16: an explicit deletion that was authorized and has ended called
\* delete_file once when the entity had a file (never otherwise), logged
\* the failure if the call failed, and left the entity in neither the
\* collection nor the durable index.
C16_DeleteOnceThenRemove ==
    (last.op \in {"remove_relock", "post_remove_relock"}
        \/ (last.op = "remove" /\ last.resp = "list")) =>
        LET deletes == Calls(last.events, "delete_file")
        IN  /\ Len(deletes) = IF last.hit.file.some THEN 1 ELSE 0
            /\ \A i \in DOMAIN last.events :
                   (last.events[i].kind = "io"
                        /\ last.events[i].what = "delete_file"
                        /\ ~last.events[i].ok) =>
                       /\ i < Len(last.events)
                       /\ last.events[i + 1].kind = "log"
                       /\ last.events[i + 1].what = "Failed to delete file"
            /\ last.hit \notin Range(pastas)
            /\ last.id \notin DOMAIN db

\* A password-authorized deletion whose delete_file failed: the bytes are
\* still in the backend and the entity is gone.
C16_Witness ==
    /\ last.op = "post_remove_relock"
    /\ last.hit.file.some
    /\ Len(FailedCalls(last.events, "delete_file")) = 1
    /\ last.removed = last.hit
    /\ last.hit \notin Range(pastas)
    /\ DOMAIN files # {}

\* ------------------------------------------------------------------ claim C17

\* C17: a sweep removes exactly the evictable entities, and a second sweep
\* at the same clock value right after it removes nothing and leaves the
\* collection, the durable index and the bytes as they are.
C17_SweepTwice ==
    last.op = "sweep" =>
        LET again == remove_expired(pastas, last.at)
        IN  /\ \A p \in last.evicted : Evictable(p, last.at)
            /\ \A p \in Range(pastas) : ~Evictable(p, last.at)
            /\ again.evicted = {}
            /\ again.kept = pastas
            /\ SweptDb(db, again) = db
            /\ SweptFiles(files, again) = files
            /\ Spawned(again) = <<>>

\* ------------------------------------------------------------------ claim C18

\* The last step ended a request of one of the five handlers (a deletion
\* still between its two lock acquisitions has not ended).
RequestEnded ==
    \/ last.op \in {"create", "get_file", "post_secure_file",
                    "remove_relock", "post_remove_relock"}
    \/ last.op \in {"remove", "post_remove"} /\ last.resp # "pending"

\* C18: when a request of create, get_file, post_secure_file, GET remove or
\* POST remove has ended, no entity evictable at the time of the request is
\* left in the collection.
C18_EveryRequestReclaims ==
    RequestEnded => \A p \in Range(pastas) : ~Evictable(p, last.at)

\* ------------------------------------------------------- claims C19, C20

\* The handler holds the store lock at its i-th step: it has taken the lock
\* more often than it has dropped it.
Held(events, i) ==
    Cardinality({j \in 1..(i - 1) : events[j].kind = "lock"})
        > Cardinality({j \in 1..(i - 1) : events[j].kind = "unlock"})

\* C19: no handler calls the backend (save_file, get_file, delete_file,
\* fs::remove_file, the open of a local file) while it holds the store
\* lock.
C19_NoBackendCallUnderLock ==
    \A i \in DOMAIN last.events :
        last.events[i].kind = "io" => ~Held(last.events, i)

\* The steps of a handler are made under the lock where they touch the
\* collection, the lock is not taken twice, and it is not held at the end.
LockDiscipline(events) ==
    /\ \A i \in DOMAIN events :
           /\ events[i].kind = "store" => Held(events, i)
           /\ events[i].kind = "lock" => ~Held(events, i)
           /\ events[i].kind = "unlock" => Held(events, i)
    /\ ~Held(events, Len(events) + 1)

\* C20: every scan of, insertion into and removal from the collection is
\* made by a handler that holds the store lock, and a handler between two
\* acquisitions holds no lock, so the steps of two handlers on the
\* collection never interleave.
C20_StoreAccessUnderLock ==
    /\ LockDiscipline(last.events)
    /\ \A f \in DOMAIN inflight : LockDiscipline(inflight[f].events)

\* A deletion that took the lock twice and touched the collection under
\* each acquisition.
C20_Witness ==
    /\ last.op = "remove_relock"
    /\ Len(SelectSeq(last.events, LAMBDA e : e.kind = "lock")) = 2
    /\ \E i \in DOMAIN last.events :
           last.events[i].kind = "store" /\ last.events[i].what = "remove"
    /\ Calls(last.events, "delete_file") # <<>>

\* ------------------------------- creations with distinct ids (SpecDistinct)

\* The ids concurrent creations draw.
DistinctIds == {1, 2, 3}

\* Creation requests in flight together are served one after the other, in
\* any order: each holds the store lock from line 187 to its return.  Here
\* every request draws an id no entity in the store has.
NextDistinct ==
    \E id \in DistinctIds, fields \in Requests :
        /\ \A i \in DOMAIN pastas : pastas[i].id # id
        /\ Create(id, fields, FALSE)

SpecDistinct == Init /\ [][NextDistinct]_vars

\* ------------------------------------------------------------------ claim C21

\* C21: creations with pairwise distinct ids leave one entity per request
\* in the collection: as many entities as requests served, each request's
\* entity there once, none twice.
C21_NoLostInsert ==
    /\ Len(pastas) = created
    /\ \A n \in 1..created :
           Cardinality({i \in DOMAIN pastas : pastas[i].uid = n}) = 1
    /\ \A i, j \in DOMAIN pastas : pastas[i].id = pastas[j].id => i = j
    /\ last.op = "create" => last.hit \in Range(pastas)

\* Two creations served, two entities with different ids in the collection.
C21_Witness ==
    /\ created = 2 /\ Len(pastas) = 2
    /\ pastas[1].id # pastas[2].id
    /\ last.op = "create" /\ last.hit = pastas[2]

\* ------------------------------------------------------------------ claim C22

\* C22: between the handlers' lock-held sections the collection and the
\* durable index describe the same entities: every entity of the collection
\* has a row under its id, and every row is the row of an entity of the
\* collection.
C22_IndexMirrorsCollection ==
    lock = "free" =>
        /\ \A i \in DOMAIN pastas : pastas[i].id \in DOMAIN db
        /\ \A id \in DOMAIN db : \E i \in DOMAIN pastas : pastas[i].id = id

\* ------------------------------------------------------------------ claim C23

\* The number of steps of this kind and name among the first n of a request.
CountUpTo(events, n, kind, what) ==
    Cardinality({j \in 1..n : events[j].kind = kind /\ events[j].what = what})

\* Each call of the durable index comes after the mutation it mirrors: an
\* insert after a push, the k-th delete of a request after its k-th
\* removal (a delete no removal of the request follows mirrors a removal
\* made before, or none).
MirrorsInOrder(events) ==
    \A i \in DOMAIN events :
        /\ (events[i].kind = "db" /\ events[i].what = "insert") =>
               CountUpTo(events, i, "store", "push") >= 1
        /\ (events[i].kind = "db" /\ events[i].what = "delete") =>
               \/ CountUpTo(events, i, "store", "remove")
                      >= CountUpTo(events, i, "db", "delete")
               \/ CountUpTo(events, Len(events), "store", "remove")
                      = CountUpTo(events, i, "store", "remove")

\* C23: in create, GET remove, POST remove and the sweep, the index insert
\* is issued after the push and the index delete of an id after the entity
\* has left the collection.
C23_IndexFollowsCollection == MirrorsInOrder(last.events)

\* ------------------------------------------------------------------ claim C24

\* The backend key create saved an entity's bytes under.
SavedKey(p) ==
    LET pasta_id == id_as_animals(p.id)
    IN  IF p.encrypt_server /\ ~p.readonly
        THEN StorageKey(pasta_id, generate_storage_path(pasta_id, DataEnc))
        ELSE StorageKey(pasta_id, p.file.name)

\* C24: between the handlers' lock-held sections every entity of the
\* collection that has a file still has its bytes in the backend.
C24_NoEntityWithoutBytes ==
    lock = "free" =>
        \A p \in Range(pastas) : p.file.some => SavedKey(p) \in DOMAIN files

\* ------------------------------------------------------------------ claim C25

\* The fields of an entity that are set at creation and stay.
Fixed(p) ==
    <<p.id, p.content, p.file, p.private, p.readonly, p.editable,
      p.encrypt_server, p.encrypt_client, p.encrypted_key, p.created,
      p.expiration, p.burn_after_reads>>

\* C25: no step of a handler changes a field set at creation of an entity
\* that stays in the collection, nor lowers its read_count.
C25_EntityFieldsStay ==
    [][ \A i \in DOMAIN pastas : \A j \in DOMAIN pastas' :
            pastas[i].uid = pastas'[j].uid =>
                /\ Fixed(pastas'[j]) = Fixed(pastas[i])
                /\ pastas'[j].read_count >= pastas[i].read_count ]_vars

\* A file read served for an entity that is still in the collection as it
\* was created, next to an entity created with the same id.
C25_Witness ==
    /\ last.op = "get_file" /\ last.resp = "ok"
    /\ Len(pastas) = 2
    /\ pastas[1].id = pastas[2].id
    /\ last.hit = pastas[1]
    /\ pastas[1].created = StartTime /\ pastas[1].read_count = 0

\* ---------------------------------------------- the locator codec (SpecLocator)

\* The length of the names handed to the codec.
MaxNameLen == 5

\* The characters of those names: the four the codec looks at and one other.
NameChars == {"s", "3", ":", "/", "a"}

Names == UNION {[1..n -> NameChars] : n \in 0..MaxNameLen}

\* A PastaFile with this name asked for is_s3(), is_s3_encrypted() and
\* display_name(): the answers are kept in resp and in removed.file.
Decode(name) ==
    LET file == SomeFile(name)
    IN  /\ last.op = "init"
        /\ last' = Obs("decode", 0, "", <<>>,
                       [NoPasta EXCEPT !.file = file],
                       IF is_s3(file)
                       THEN IF is_s3_encrypted(file) THEN "both" ELSE "is_s3"
                       ELSE IF is_s3_encrypted(file) THEN "is_s3_encrypted"
                            ELSE "neither",
                       {}, [NoPasta EXCEPT !.file = SomeFile(display_name(file))],
                       EmptyText)
        /\ UNCHANGED <<args, pastas, db, files, now, inflight, created, lock>>

NextLocator == \E name \in Names : Decode(name)

SpecLocator == Init /\ [][NextLocator]_vars

\* ------------------------------------------------------------------ claim C26

\* The first characters of a name are these.
Begins(name, chars) ==
    /\ Len(name) >= Len(chars)
    /\ \A i \in 1..Len(chars) : name[i] = chars[i]

\* C26: is_s3 holds exactly of the names that begin with "s3://",
\* is_s3_encrypted exactly of those that begin with "s3:" and not with
\* "s3://", and no name satisfies both.
C26_LocatorPredicates ==
    last.op = "decode" =>
        LET name == last.hit.file.name
            url  == Begins(name, <<"s", "3", ":", "/", "/">>)
            tag  == Begins(name, <<"s", "3", ":">>)
        IN  /\ last.resp \in {"is_s3", "both"} <=> url
            /\ last.resp \in {"is_s3_encrypted", "both"} <=> (tag /\ ~url)
            /\ last.resp # "both"

\* The predicates have been asked about a name that begins with "s3:/" and
\* not with "s3://", and only is_s3_encrypted held.
C26_Witness ==
    /\ last.op = "decode"
    /\ last.hit.file.name = <<"s", "3", ":", "/", "a">>
    /\ last.resp = "is_s3_encrypted"

\* ------------------------------------- creation under every name (SpecNames)

\* A creation request with a file uploaded under this path, in this mode.
NamedRequests ==
    { << Field("privacy", v), Field("plain_key", "k1"),
         Field("random_key", "k2"), FileField(n, "f") >> :
        v \in PrivacyValues, n \in Names \ {<<>>} }

NextNames ==
    \E fields \in NamedRequests : pastas = <<>> /\ Create(1, fields, FALSE)

\* One creation into an empty store, on local storage or on S3.
SpecNames == InitCreate /\ [][NextNames]_vars

\* ------------------------------------------------------------------ claim C27

\* The sanitized name of the file a request uploads.
UploadName(fields) ==
    LET S == {i \in 1..Len(fields) :
                fields[i].name = "file" /\ fields[i].fname # <<>>}
    IN  from_unsanitized(fields[CHOOSE i \in S : \A j \in S : j <= i].fname)
            .file.name

\* C27: the locator create stores decodes to what was encoded: is_s3 holds
\* iff the bytes went unencrypted to the object store, is_s3_encrypted iff
\* they went encrypted to the object store, display_name is the sanitized
\* upload name, and an encrypted file on local storage is saved as data.enc
\* with both predicates false.
C27_LocatorRoundTrip ==
    (last.op = "create" /\ last.hit # NoPasta /\ last.hit.file.some) =>
        LET f     == last.hit.file
            enc   == last.hit.encrypt_server /\ ~last.hit.readonly
            saves == Calls(last.events, "save_file")
        IN  /\ is_s3(f) <=> (args.s3_enabled /\ ~enc)
            /\ is_s3_encrypted(f) <=> (args.s3_enabled /\ enc)
            /\ display_name(f) = UploadName(last.req)
            /\ (~args.s3_enabled /\ enc) =>
                   /\ Len(saves) = 1
                   /\ saves[1].arg = BytesDir(last.hit) \o DataEnc

\* ------------------------------------------- the backend alone (SpecStorage)

\* Storage paths: a plain name, a name that begins with "s3:", and
\* object-store paths.
StoragePaths ==
    { <<"a">>, <<"s", "3", ":", "a">>,
      S3UrlPrefix \o <<"a">>, S3UrlPrefix \o <<"s", "3", ":", "a">> }

StorageData == {Plain("f"), Plain("g")}

\* save_file(pasta_id, storage_path, data) returning Ok.
SaveCall(id, p, data) ==
    /\ files' = save_file(files, id_as_animals(id), p, data)
    /\ last' = Obs("save_file", id, "", <<>>,
                   [NoPasta EXCEPT !.file = SomeFile(p)], "ok", {}, NoPasta,
                   data)
    /\ UNCHANGED <<args, pastas, db, now, inflight, created, lock>>

\* get_file(pasta_id, storage_path).
GetCall(id, p) ==
    LET got == get_file_bytes(files, id_as_animals(id), p)
    IN  /\ last' = Obs("get_file_bytes", id, "", <<>>,
                       [NoPasta EXCEPT !.file = SomeFile(p)],
                       IF got.ok THEN "ok" ELSE "err", {}, NoPasta, got.val)
        /\ UNCHANGED <<args, pastas, db, files, now, inflight, created,
                       lock>>

\* delete_file(pasta_id, storage_path) returning Ok.
DeleteCall(id, p) ==
    /\ files' = delete_file(files, id_as_animals(id), p)
    /\ last' = Obs("delete_file", id, "", <<>>,
                   [NoPasta EXCEPT !.file = SomeFile(p)], "ok", {}, NoPasta,
                   EmptyText)
    /\ UNCHANGED <<args, pastas, db, now, inflight, created, lock>>

NextStorage ==
    \/ \E id \in Ids, p \in StoragePaths, data \in StorageData :
           SaveCall(id, p, data)
    \/ \E id \in Ids, p \in StoragePaths : GetCall(id, p)
    \/ \E id \in Ids, p \in StoragePaths : DeleteCall(id, p)

SpecStorage == Init /\ [][NextStorage]_vars

\* ------------------------------------------------------------------ claim C28

\* Where the claim routes a path: to the object key after "s3://" when the
\* path begins with "s3://", else to the local file under the slug.
Routed(id, p) ==
    IF Begins(p, <<"s", "3", ":", "/", "/">>)
    THEN [backend |-> "s3", path |-> [i \in 1..(Len(p) - 5) |-> p[i + 5]]]
    ELSE [backend |-> "local",
          path |-> <<"attachments", "/", id_to_string(id), "/">> \o p]

\* C28: the three functions route a path alike: after a save the bytes are
\* where the path routes and get_file returns them; get_file answers from
\* where the path routes; after a delete nothing is there and get_file
\* fails, and a delete of a missing local file is Ok.
C28_SameDispatch ==
    LET id == last.id
        p  == last.hit.file.name
        k  == Routed(id, p)
        got == get_file_bytes(files, id_as_animals(id), p)
    IN  /\ last.op = "save_file" =>
               /\ k \in DOMAIN files /\ files[k] = last.body
               /\ got.ok /\ got.val = last.body
        /\ last.op = "get_file_bytes" =>
               /\ last.resp = "ok" <=> k \in DOMAIN files
               /\ last.resp = "ok" => last.body = files[k]
        /\ last.op = "delete_file" =>
               /\ k \notin DOMAIN files
               /\ ~got.ok
               /\ last.resp = "ok"

\* A get_file that answered with the bytes saved under a local name that
\* begins with "s3:", while an object is stored under the same name.
C28_Witness ==
    /\ last.op = "get_file_bytes" /\ last.resp = "ok"
    /\ last.hit.file.name = <<"s", "3", ":", "a">>
    /\ last.body = Plain("f")
    /\ [backend |-> "s3", path |-> <<"s", "3", ":", "a">>] \in DOMAIN files
    /\ files[[backend |-> "s3", path |-> <<"s", "3", ":", "a">>]] = Plain("g")

\* ------------------------------------------------------------------ claim C30

\* C30: a creation that draws the id of an entity already in the collection
\* still appends its entity: every entity that was there stays where it was
\* and as it was, the new entity follows them under the drawn id, and the
\* collection then holds two entities with that id.
C30_NoUniquenessCheck ==
    [][ ( /\ created' = created + 1
          /\ last'.op = "create" /\ last'.hit # NoPasta
          /\ \E i \in DOMAIN pastas : pastas[i].id = last'.id )
        => /\ Len(pastas') = Len(pastas) + 1
           /\ SubSeq(pastas', 1, Len(pastas)) = pastas
           /\ pastas'[Len(pastas')] = last'.hit
           /\ last'.hit.id = last'.id
           /\ \E i, j \in DOMAIN pastas' :
                  i # j /\ pastas'[i].id = pastas'[j].id ]_vars

\* A creation served under the id of the entity created before it: both
\* are in the collection, the earlier one first.
C30_Witness ==
    /\ last.op = "create" /\ last.hit # NoPasta
    /\ Len(pastas) = 2
    /\ pastas[1].uid = 1 /\ pastas[2].uid = 2
    /\ pastas[2] = last.hit
    /\ pastas[1].id = last.id /\ pastas[2].id = last.id

\* ------------------------------------------- expiry at creation (SpecExpiry)

\* The values of the "expiration" field and of ARGS.default_expiry: the
\* seven the match knows, and one it does not.
ExpiryStrings ==
    {"1min", "10min", "1hour", "24hour", "3days", "1week", "never", "2weeks"}

\* Public texts: one without an "expiration" field, one for each value.
ExpiryRequests ==
    { <<Field("privacy", "public"), Field("content", "c")>> }
    \cup { <<Field("privacy", "public"), Field("expiration", e),
             Field("content", "c")>> : e \in ExpiryStrings }

NextExpiry ==
    \/ \E fields \in ExpiryRequests : Create(1, fields, FALSE)
    \/ Tick

\* Creations at two clock values, with eternal pastes allowed or not and
\* under three default expiry strings.
SpecExpiry ==
    /\ \E eternal \in BOOLEAN, dflt \in {"never", "24hour", "2weeks"} :
           args = Args(0, eternal, TRUE, FALSE, dflt)
    /\ pastas = <<>> /\ db = << >> /\ files = << >>
    /\ now = StartTime /\ inflight = <<>> /\ created = 0
    /\ last = NoObs /\ lock = "free"
    /\ [][NextExpiry]_vars

\* ------------------------------------------------------------------ claim C31

\* The value of a request's "expiration" field, the default expiry string
\* when the request has none.
ExpiryOf(fields) ==
    LET S == {i \in DOMAIN fields : fields[i].name = "expiration"}
    IN  IF S = {} THEN args.default_expiry
        ELSE fields[CHOOSE i \in S : \A j \in S : j <= i].val

\* The seconds each expiry string adds, 0 for an entity that never expires.
ExpiryTable(e, eternal) ==
    CASE e = "1min"   -> 60
      [] e = "10min"  -> 600
      [] e = "1hour"  -> 3600
      [] e = "24hour" -> 86400
      [] e = "3days"  -> 259200
      [] e = "1week"  -> 604800
      [] e = "never"  -> IF eternal THEN 0 ELSE 604800
      [] OTHER        -> 604800

\* C31: an entity's expiration is its creation time plus the seconds of
\* the expiry string of its request (the default string when the request
\* has none), and 0 only for "never" with eternal pastes allowed; when
\* eternal pastes are not allowed every entity of the collection has
\* expiration # 0 and created < expiration <= created + 604800.
C31_ExpirationAtCreation ==
    /\ (last.op = "create" /\ last.hit # NoPasta) =>
           LET e == ExpiryOf(last.req)
               d == ExpiryTable(e, args.eternal_pasta)
           IN  /\ last.hit.created = last.at
               /\ last.hit.expiration =
                      IF d = 0 THEN 0 ELSE last.hit.created + d
               /\ (d = 0) <=> (e = "never" /\ args.eternal_pasta)
    /\ ~args.eternal_pasta =>
           \A i \in DOMAIN pastas :
               /\ pastas[i].expiration # 0
               /\ pastas[i].created < pastas[i].expiration
               /\ pastas[i].expiration <= pastas[i].created + 604800

\* Eternal pastes are not allowed, and a creation that asked for "never"
\* after one that asked for "3days" got a week.
C31_Witness ==
    /\ ~args.eternal_pasta
    /\ last.op = "create" /\ last.hit # NoPasta
    /\ ExpiryOf(last.req) = "never"
    /\ Len(pastas) = 2 /\ pastas[2] = last.hit
    /\ pastas[2].expiration = pastas[2].created + 604800
    /\ pastas[1].expiration = pastas[1].created + 259200

\* --------------------------------- a file from creation to deletion (SpecLife)

\* Upload names: a plain one, one that begins with "s3:" and one that
\* still begins with "s3:" once a leading "s3:" is taken off.
HostileNames ==
    { <<"a.txt">>, <<"s", "3", ":", "a">>,
      <<"s", "3", ":", "s", "3", ":", "a">> }

\* Public and private files that expire after a minute, under each name.
LifeRequests ==
    { << Field("privacy", v), Field("plain_key", "k1"),
         Field("expiration", "1min"), FileField(n, "f") >> :
        v \in {"public", "private"}, n \in HostileNames }

NextLife ==
    \/ \E fields \in LifeRequests : pastas = <<>> /\ Create(1, fields, FALSE)
    \/ GetFile(1)
    \/ PostSecureFile(1, "k1")
    \/ Remove(1)
    \/ PostRemove(1, "k1")
    \/ \E i \in DOMAIN inflight : DeleteBytes(i)
    \/ \E i \in DOMAIN inflight : FinishRemove(i)
    \/ Tick

\* Files created one at a time under id 1, read, deleted and swept, on
\* local storage or on S3.
SpecLife == Init /\ [][NextLife]_vars

\* ------------------------------------------------------------------ claim C32

\* The backend calls of a trace that name a stored file: reads, deletes,
\* and deletes handed to a spawned task.
FileCalls(events) ==
    SelectSeq(events,
              LAMBDA e : /\ e.kind \in {"io", "spawn"}
                         /\ e.what \in {"get_file", "NamedFile::open",
                                         "delete_file", "remove_file"})

\* C32: whatever storage key get_file, post_secure_file (asked for an
\* encrypted entity), GET remove, POST remove or the sweep derives from an
\* entity's stored locator and its encrypt_server flag is the key create
\* saved that entity's bytes under, for every backend, privacy mode and
\* upload name.
C32_LocatorConsistency ==
    (last.op \in {"get_file", "post_secure_file", "remove", "post_remove",
                  "delete_file"}
        /\ (last.op = "delete_file" => last.hit # NoPasta)
        /\ (last.op = "post_secure_file" => last.hit.encrypt_server)) =>
        \A n \in DOMAIN FileCalls(last.events) :
            \E p \in ({last.hit} \cup last.evicted) \ {NoPasta} :
                /\ p.file.some
                /\ FileCalls(last.events)[n].arg = KeyTokens(SavedKey(p))

\* ------------------------------------------------------------------ claim C33

\* C33: when GET remove (for an entity with a file) or POST remove takes
\* the lock again, the entity it removes from the collection, if it
\* removes one, is the entity it found and authorized before it released
\* the lock, whatever creations, sweeps and deletions ran in between.
C33_RemovesAuthorized ==
    (last.op \in {"remove_relock", "post_remove_relock"}
        /\ last.removed # NoPasta) =>
        last.removed.uid = last.hit.uid

\* ------------------------------------------------------------------ claim C34

\* The reads of stored bytes in a trace.
FileReads(events) ==
    SelectSeq(events, LAMBDA e : e.kind = "io" /\
                                 e.what \in {"get_file", "NamedFile::open"})

\* C34 as stated: for an entity whose encrypt_server flag is set get_file
\* answers with the redirect to the authentication page, returns no bytes
\* and reads nothing from the backend.
C34_AlwaysRedirects ==
    (last.op = "get_file" /\ last.hit # NoPasta /\ last.hit.encrypt_server)
        => /\ last.resp = "auth_file"
           /\ last.body = EmptyText
           /\ FileReads(last.events) = <<>>

\* C34: for an entity whose encrypt_server flag is set get_file returns no
\* bytes and reads nothing from the backend; it answers with the redirect
\* to the authentication page when the entity has a file and with 404
\* when it has none.
C34_NoBytesOfEncrypted ==
    (last.op = "get_file" /\ last.hit # NoPasta /\ last.hit.encrypt_server)
        => /\ last.resp = IF last.hit.file.some THEN "auth_file"
                          ELSE "not_found"
           /\ last.body = EmptyText
           /\ FileReads(last.events) = <<>>

\* get_file asked for a private entity whose encrypted file is in the
\* backend, and answered with the redirect.
C34_Witness ==
    /\ last.op = "get_file" /\ last.hit # NoPasta
    /\ last.hit.encrypt_server /\ last.hit.file.some
    /\ last.hit \in Range(pastas)
    /\ SavedKey(last.hit) \in DOMAIN files
    /\ last.resp = "auth_file"

\* ----------------------------------- requests on worker threads (SpecSched)

\* In this specification `inflight` holds the requests being served, each
\* [uid, op, thread, pc]: the worker thread its task runs on and where the
\* task is: "start" (accepted, not yet polled), "blocked" (inside
\* pastas.lock(), which blocks the thread until the lock is free), "await"
\* (suspended at an .await with the guard alive), "ready" (the awaited I/O
\* is complete, the task waits to be polled).  `lock` is "free" or "held",
\* `created` counts the requests accepted.

\* The requests accepted in one run.
MaxRequests == 3

\* The worker threads.  A task stays on the thread that accepted it: the
\* guard it holds across an .await is not Send.
Workers == {1, 2}

\* The handlers: create (lock at 187, multipart and save_file awaited under
\* it), post_secure_file (lock at 21, the password and get_file awaited
\* under it), remove (lock at 18, nothing awaited under it).
SchedOps == {"create", "post_secure_file", "remove"}

\* The handlers that reach an .await while the guard is alive.
HoldsAcrossAwait(op) == op \in {"create", "post_secure_file"}

\* The task of request n can run: it is in flight and no other task of its
\* thread sits inside pastas.lock().
Runnable(n) ==
    \E i \in DOMAIN inflight :
        /\ inflight[i].uid = n
        /\ \A j \in DOMAIN inflight :
               (j # i /\ inflight[j].thread = inflight[i].thread)
                   => inflight[j].pc # "blocked"

\* pastas.lock() returns to the task at position i: a handler that awaits
\* under the guard runs to its first .await, any other runs to its end and
\* drops the guard.
Acquired(i) ==
    IF HoldsAcrossAwait(inflight[i].op)
    THEN /\ lock' = "held"
         /\ inflight' = [inflight EXCEPT ![i].pc = "await"]
    ELSE /\ lock' = "free"
         /\ inflight' = RemoveAt(inflight, i)

\* A request is accepted by a worker.
Arrive(op, w) ==
    /\ created < MaxRequests
    /\ created' = created + 1
    /\ inflight' = Append(inflight, [uid |-> created + 1, op |-> op,
                                     thread |-> w, pc |-> "start"])
    /\ last' = Obs("arrive", created + 1, "", <<>>, NoPasta, op, {},
                   NoPasta, EmptyText)
    /\ UNCHANGED <<args, pastas, db, files, now, lock>>

\* The task of request n is polled for the first time and calls
\* pastas.lock(): it gets the guard, or its thread blocks in the call.
TryLock(n) ==
    /\ Runnable(n)
    /\ \E i \in DOMAIN inflight :
           /\ inflight[i].uid = n /\ inflight[i].pc = "start"
           /\ IF lock = "free" THEN Acquired(i)
              ELSE /\ inflight' = [inflight EXCEPT ![i].pc = "blocked"]
                   /\ UNCHANGED lock
    /\ last' = Obs("lock", n, "", <<>>, NoPasta, lock, {}, NoPasta,
                   EmptyText)
    /\ UNCHANGED <<args, pastas, db, files, now, created>>

\* The lock is free and the pastas.lock() call of request n returns.
Wake(n) ==
    /\ lock = "free"
    /\ \E i \in DOMAIN inflight :
           /\ inflight[i].uid = n /\ inflight[i].pc = "blocked"
           /\ Acquired(i)
    /\ last' = Obs("wake", n, "", <<>>, NoPasta, "", {}, NoPasta, EmptyText)
    /\ UNCHANGED <<args, pastas, db, files, now, created>>

\* The I/O request n awaits (multipart chunks, save_file, get_file)
\* completes.
IoDone(n) ==
    /\ \E i \in DOMAIN inflight :
           /\ inflight[i].uid = n /\ inflight[i].pc = "await"
           /\ inflight' = [inflight EXCEPT ![i].pc = "ready"]
    /\ last' = Obs("io_done", n, "", <<>>, NoPasta, "", {}, NoPasta,
                   EmptyText)
    /\ UNCHANGED <<args, pastas, db, files, now, created, lock>>

\* The task of request n is polled again, runs to its end and drops the
\* guard.
Resume(n) ==
    /\ Runnable(n)
    /\ \E i \in DOMAIN inflight :
           /\ inflight[i].uid = n /\ inflight[i].pc = "ready"
           /\ inflight' = RemoveAt(inflight, i)
    /\ lock' = "free"
    /\ last' = Obs("resume", n, "", <<>>, NoPasta, "", {}, NoPasta,
                   EmptyText)
    /\ UNCHANGED <<args, pastas, db, files, now, created>>

NextSched ==
    \/ \E op \in SchedOps, w \in Workers : Arrive(op, w)
    \/ \E n \in 1..MaxRequests : TryLock(n)
    \/ \E n \in 1..MaxRequests : Wake(n)
    \/ \E n \in 1..MaxRequests : IoDone(n)
    \/ \E n \in 1..MaxRequests : Resume(n)

SpecSched == Startup(<<TRUE, FALSE>>) /\ [][NextSched]_vars

\* Fair scheduling and eventual completion of every I/O step: a task that
\* can be polled is polled, an awaited I/O completes, and a thread waiting
\* in pastas.lock() gets the lock if it is free again and again.
LiveSched ==
    /\ SpecSched
    /\ \A n \in 1..MaxRequests :
           /\ WF_vars(TryLock(n)) /\ SF_vars(Wake(n))
           /\ WF_vars(IoDone(n)) /\ WF_vars(Resume(n))

\* ------------------------------------------------------------------ claim C35

\* Request n is being served.
Serving(n) == \E i \in DOMAIN inflight : inflight[i].uid = n

\* C35: under fair scheduling and eventual completion of every I/O step,
\* every request that is accepted gets the store lock and completes, also
\* when a request suspended under the lock shares its worker thread with a
\* request that blocks on the lock.
C35_EveryRequestCompletes ==
    \A n \in 1..MaxRequests : Serving(n) ~> ~Serving(n)

\* ------------------------------------------------------------------ claim C36

\* C36: after a creation whose save_file failed, the store lock can be
\* acquired by the requests that follow (every handler starts with
\* pastas.lock().unwrap(), which succeeds only on a lock that is free and
\* not poisoned).
C36_LockUsableAfterFailure ==
    (last.op = "create" /\ last.resp = "panic") => lock = "free"

\* ------------------------------------------------------------------ claim C37

\* C37: a POST remove that is rejected (empty or wrong password) or
\* redirected (entity not protected) removes nothing but what its sweep
\* evicted: the collection loses the evicted entities only, the index the
\* rows of their ids only, the backend the local files of the evicted
\* only; no deletion is started and delete_file is not called.
C37_RejectedRemovesNothing ==
    [][ (last'.op = "post_remove" /\ last'.resp \in {"incorrect", "upload"})
        => /\ pastas' = SelectSeq(pastas, LAMBDA p : p \notin last'.evicted)
           /\ DOMAIN db' = DOMAIN db \ {p.id : p \in last'.evicted}
           /\ \A x \in DOMAIN db' : db'[x] = db[x]
           /\ DOMAIN files \ DOMAIN files'
                  \subseteq {SavedKey(p) :
                                p \in {q \in last'.evicted : q.file.some}}
           /\ \A k \in DOMAIN files' : k \in DOMAIN files /\ files'[k] = files[k]
           /\ Removals(inflight') = Removals(inflight)
           /\ Calls(last'.events, "delete_file") = <<>>
           /\ last'.hit \in Range(pastas') ]_vars

\* A POST remove with a wrong password for a private text, answered
\* "incorrect": the text and its row are there, and so is the file of
\* another entity of the collection.
C37_Witness ==
    /\ last.op = "post_remove" /\ last.resp = "incorrect"
    /\ last.password = "k2"
    /\ last.hit \in Range(pastas)
    /\ last.hit.encrypt_server /\ last.hit.content # EmptyText
    /\ last.hit.id \in DOMAIN db
    /\ \E p \in Range(pastas) :
           p.file.some /\ SavedKey(p) \in DOMAIN files

\* ------------------------------------- uploads behind a password (SpecUploader)

\* Public uploads, a text or a file, without an uploader password, with
\* the configured one (plain or between spaces) or with another.
UploaderRequests ==
    { <<Field("privacy", "public")>> \o pw \o body :
        pw \in { <<>>, <<Field("uploader_password", "up")>>,
                 <<Field("uploader_password", " up ")>>,
                 <<Field("uploader_password", "x")>> },
        body \in { <<Field("content", "c")>>, <<FileField(FileName, "f")>> } }

NextUploader ==
    \E id \in Ids, fields \in UploaderRequests, cookie \in BOOLEAN :
        Create(id, fields, cookie)

\* Creations on a read-only server whose uploader password is "up", on
\* local storage or on S3.
SpecUploader ==
    /\ \E s3 \in BOOLEAN :
           args = [Args(0, TRUE, TRUE, s3, "24hour")
                      EXCEPT !.uploader_password = "up"]
    /\ pastas = <<>> /\ db = << >> /\ files = << >>
    /\ now = StartTime /\ inflight = <<>> /\ created = 0
    /\ last = NoObs /\ lock = "free"
    /\ [][NextUploader]_vars

\* ------------------------------------------------------------------ claim C38

\* The uploader password a request carries, "" when it carries none.
UploaderField(fields) ==
    LET S == {i \in DOMAIN fields : fields[i].name = "uploader_password"}
    IN  IF S = {} THEN "" ELSE fields[CHOOSE i \in S : TRUE].val

\* C38: with an uploader password configured, a creation request that
\* carries neither a valid uploader cookie nor that password is answered
\* with the redirect to /incorrect and changes nothing: no entity is
\* pushed, no row inserted, no byte saved.
C38_UnauthenticatedCommitsNothing ==
    [][ ( /\ created' = created + 1 /\ last'.op = "create"
          /\ args.uploader_password # ""
          /\ last'.password # "uploader_token"
          /\ UploaderField(last'.req) \notin {"up", " up "} )
        => /\ pastas' = pastas /\ db' = db /\ files' = files
           /\ last'.resp = "incorrect" /\ last'.hit = NoPasta
           /\ \A i \in DOMAIN last'.events :
                  /\ last'.events[i].kind \notin {"io", "db"}
                  /\ last'.events[i].what # "push" ]_vars

\* After an authenticated upload, a request with a file and the wrong
\* uploader password was turned away.
C38_Witness ==
    /\ last.op = "create" /\ last.resp = "incorrect"
    /\ last.password = "" /\ UploaderField(last.req) = "x"
    /\ \E i \in DOMAIN last.req : last.req[i].name = "file"
    /\ created = 2 /\ Len(pastas) = 1
    /\ DOMAIN db = {pastas[1].id}

\* ------------------------------------------------------------------ claim C39

\* The entity meets none of the three eviction conditions at clock value t.
NotEvictable(p, t) ==
    ~(ExpiryReached(p, t) \/ BudgetExhausted(p) \/ Inactive(p, t))

\* C39: a sweep (the one get_file, post_secure_file and POST remove start
\* with, and the one GET remove runs when it finds nothing) leaves every
\* entity that meets none of the three eviction conditions in the
\* collection, with its fields and in the same relative order, and deletes
\* neither its durable row nor its backing bytes.
C39_SweepTouchesEvictableOnly ==
    [][ ( \/ last'.op \in {"get_file", "post_secure_file", "post_remove"}
          \/ last'.op = "remove" /\ last'.resp = "error_page" )
        => /\ SelectSeq(pastas', LAMBDA p : NotEvictable(p, now))
                  = SelectSeq(pastas, LAMBDA p : NotEvictable(p, now))
           /\ \A i \in DOMAIN pastas :
                  NotEvictable(pastas[i], now) =>
                      /\ pastas[i].id \in DOMAIN db =>
                             /\ pastas[i].id \in DOMAIN db'
                             /\ db'[pastas[i].id] = db[pastas[i].id]
                      /\ (pastas[i].file.some
                             /\ SavedKey(pastas[i]) \in DOMAIN files) =>
                             /\ SavedKey(pastas[i]) \in DOMAIN files'
                             /\ files'[SavedKey(pastas[i])]
                                    = files[SavedKey(pastas[i])] ]_vars

====
